---- MODULE Spec2Model ----
(***************************************************************************)
(* Funding-rate daily pipeline of binance-public-data:                     *)
(*   scripts/convert_tardis_to_markprice_format.py  (hourly resampler)     *)
(*   scripts/app_download_funding_rate.py           (per-day pipeline)     *)
(*                                                                         *)
(* Units.  TLC integers are 32 bit, Python's are unbounded, so instants    *)
(* that the code holds in micro/milliseconds are held here in coarser      *)
(* units and named so:                                                     *)
(*   - a raw row's `timestamp` is in epoch MINUTES (code: microseconds);   *)
(*   - a data-frame row's `datetime` is an epoch HOUR (code: datetime64);  *)
(*   - settlement timestamps are epoch SECONDS; the code multiplies by     *)
(*     1000 and formats the integer, which MillisStr renders as text.      *)
(*   - prices and rates are integers in units of 1e-9, so that round(8)    *)
(*     is a real rounding step.                                            *)
(***************************************************************************)
EXTENDS Integers, Sequences, FiniteSets, TLC

VARIABLES
    pc,                 \* position of the running script
    tz,                 \* UTC offset (hours) of the process's local time zone
    availability_matrix,\* [exists, columns, rows: date string -> (symbol -> 0/1)]
    start_date, end_date, current_date,   \* main(): dates as <<y, m, d>>
    successful_days, failed_days,         \* main(): results of the day loop
    exit_code,          \* sys.exit status, NoExit while running
    symbols,            \* process_single_date: symbols of the day, in column order
    fetch_requested,    \* symbols handed to datasets.download by the last Fetch
    initial_files,      \* download_funding_rate_data: targets found before the call
    final_downloaded,   \* download_funding_rate_data: targets found after the call
    extracted_files,    \* extract_day_data: list of <<symbol, file name>>
    convert_result,     \* convert_day_data: [success, failed, skipped]
    compressed_files,   \* compress_day_data: number of files added to the tar
    cleanup_result,     \* cleanup_data: [success, failed]
    unit,               \* history of the day unit in progress (or last finished)
    unit_log,           \* per finished unit: [date, verdict]
    downloadFS,         \* {base}/download : symbol -> (file name -> gz file)
    extractFS,          \* {base}/extract  : symbol -> (file name -> raw csv)
    outputFS,           \* {base}/output   : symbol -> (file name -> output rows)
    finalFS,            \* {base}/final    : tar name -> set of <<arcname, rows>>
    problem_files,      \* converter: set of <<symbol, file name, reason>>
    processed_files,    \* converter: number of files written
    io_faults,          \* I/O errors raised so far by os.remove and tarfile
    rerun,              \* a unit run again: [vendor, attempt]
    batch               \* download-async.py: state of the batch downloader

vars == <<pc, tz, availability_matrix, start_date, end_date, current_date,
          successful_days, failed_days, exit_code, symbols, fetch_requested,
          initial_files, final_downloaded, extracted_files, convert_result,
          compressed_files, cleanup_result, unit, unit_log, downloadFS, extractFS,
          outputFS, finalFS, problem_files, processed_files, io_faults,
          rerun, batch>>

-----------------------------------------------------------------------------
(* Bounds of the model.                                                    *)

\* longest raw file (rows) enumerated for the converter
MaxObs == 2
\* longest date range of one run, in days
MaxDays == 2
\* most I/O errors (os.remove, tarfile) the file system raises in one run
MaxFaults == 1
Symbols == {"X", "Y"}
\* sorted(symbols): the order in which the converter walks the directories
SymbolOrder == <<"X", "Y">>

\* pandas' missing value (an empty csv cell, or an empty resample bin)
NaN == -1
NoExit == -1
NoDate == <<0, 0, 0>>

-----------------------------------------------------------------------------
(* TimeGrid: calendar arithmetic as datetime / calendar.timegm do it.      *)

IsLeap(y) == (y % 4 = 0) /\ ((y % 100 # 0) \/ (y % 400 = 0))

DaysInMonth(y, m) ==
    IF m = 2 THEN (IF IsLeap(y) THEN 29 ELSE 28)
    ELSE IF m \in {4, 6, 9, 11} THEN 30 ELSE 31

RECURSIVE DaysBeforeMonth(_, _)
DaysBeforeMonth(y, m) ==
    IF m = 1 THEN 0 ELSE DaysBeforeMonth(y, m - 1) + DaysInMonth(y, m - 1)

DaysBeforeYear(y) ==
    (y - 1) * 365 + ((y - 1) \div 4) - ((y - 1) \div 100) + ((y - 1) \div 400)

\* date.toordinal()
ToOrdinal(date) ==
    DaysBeforeYear(date[1]) + DaysBeforeMonth(date[1], date[2]) + date[3]

\* ordinal of 1970-01-01
EpochOrdinal == 719163

\* days since the epoch of a calendar date
EpochDay(date) == ToOrdinal(date) - EpochOrdinal

\* date + timedelta(days=1)
NextDay(date) ==
    IF date[3] < DaysInMonth(date[1], date[2]) THEN <<date[1], date[2], date[3] + 1>>
    ELSE IF date[2] < 12 THEN <<date[1], date[2] + 1, 1>>
    ELSE <<date[1] + 1, 1, 1>>

RECURSIVE AddDays(_, _)
AddDays(date, n) == IF n = 0 THEN date ELSE AddDays(NextDay(date), n - 1)

DateLE(a, b) == EpochDay(a) <= EpochDay(b)

\* date - timedelta(days=1)
PrevDay(date) ==
    IF date[3] > 1 THEN <<date[1], date[2], date[3] - 1>>
    ELSE IF date[2] > 1 THEN <<date[1], date[2] - 1, DaysInMonth(date[1], date[2] - 1)>>
    ELSE <<date[1] - 1, 12, 31>>

Pad2(n) == IF n < 10 THEN "0" \o ToString(n) ELSE ToString(n)

\* date.strftime('%Y-%m-%d')
DateStr(date) == ToString(date[1]) \o "-" \o Pad2(date[2]) \o "-" \o Pad2(date[3])

\* the integer n * 1000 formatted in decimal (n > 0)
MillisStr(n) == ToString(n) \o "000"

\* calendar.timegm(dt.timetuple()) for a datetime at hour:00:00
Timegm(date, hour) == (EpochDay(date) * 24 + hour) * 3600

\* naive datetime.timestamp(): the fields are read as local time
LocalTimestamp(date, hour, offset) == Timegm(date, hour) - offset * 3600

\* converter lines 172-180: name of the output file of an input date
ConvertTimestamp(input_date) == Timegm(NextDay(input_date), 0)

\* compress_day_data lines 344-347 (seconds; the code holds milliseconds)
ArchiveTimestamp(date, offset) == LocalTimestamp(NextDay(date), 8, offset)

\* cleanup_data lines 394-397
PurgeTimestamp(date, offset) == LocalTimestamp(NextDay(date), 8, offset)

CsvName(stem) == stem \o ".csv"
GzName(date_str) == date_str \o ".csv.gz"
TarName(date_str) == "funding_rate_" \o date_str \o ".tar.gz"

-----------------------------------------------------------------------------
(* Resampler: convert_tardis_to_markprice_format, one input file.          *)

\* converter line 93
required_columns ==
    {"timestamp", "funding_rate", "mark_price", "index_price", "funding_timestamp"}

\* converter line 49
expected_rows == 24

\* first dates of the runs that are enumerated
StartDates == {<<2025, 5, 1>>, <<2025, 5, 31>>}

\* every date a file name of the model can carry
KnownDates == {AddDays(d, k) : d \in StartDates, k \in 0..MaxDays}

\* converter lines 101-107: file_name.replace('.csv', '') parsed by
\* datetime.strptime(date_str, '%Y-%m-%d'); NoDate stands for ValueError
ParseDate(file_name) ==
    IF \E d \in KnownDates : CsvName(DateStr(d)) = file_name
    THEN CHOOSE d \in KnownDates : CsvName(DateStr(d)) = file_name
    ELSE NoDate

\* the hour bin of a raw timestamp (resample('h') floors to the hour)
HourOf(timestamp) == timestamp \div 60

\* r placed behind the rows of `sorted` that are not later than it
InsertByTime(sorted, r, k) ==
    SubSeq(sorted, 1, k) \o <<r>> \o SubSeq(sorted, k + 1, Len(sorted))

InsertStable(sorted, r) ==
    InsertByTime(sorted, r,
        Cardinality({i \in 1..Len(sorted) : sorted[i].timestamp <= r.timestamp}))

\* the stable (merge) sort by time that resample applies to an unsorted index
RECURSIVE SortByTime(_)
SortByTime(rows) ==
    IF rows = <<>> THEN <<>>
    ELSE InsertStable(SortByTime(SubSeq(rows, 1, Len(rows) - 1)), rows[Len(rows)])

\* first() of a bin: the mutant of BinLast
BinFirst(sorted, hour, col) ==
    LET idx == {i \in 1..Len(sorted) :
                    HourOf(sorted[i].timestamp) = hour /\ sorted[i][col] # NaN}
    IN IF idx = {} THEN NaN
       ELSE sorted[CHOOSE i \in idx : \A j \in idx : i <= j][col]

\* GroupBy.last(): per column, the last value of the bin that is not NaN
BinLast(sorted, hour, col) ==
    LET idx == {i \in 1..Len(sorted) :
                    HourOf(sorted[i].timestamp) = hour /\ sorted[i][col] # NaN}
    IN IF idx = {} THEN NaN
       ELSE sorted[CHOOSE i \in idx : \A j \in idx : j <= i][col]

\* the row of one hour bin
BinRow(sorted, hour) ==
    [datetime          |-> hour,
     funding_rate      |-> BinLast(sorted, hour, "funding_rate"),
     mark_price        |-> BinLast(sorted, hour, "mark_price"),
     index_price       |-> BinLast(sorted, hour, "index_price"),
     funding_timestamp |-> BinLast(sorted, hour, "funding_timestamp")]

RECURSIVE BinRows(_, _, _)
BinRows(sorted, hour, last_hour) ==
    IF hour > last_hour THEN <<>>
    ELSE <<BinRow(sorted, hour)>> \o BinRows(sorted, hour + 1, last_hour)

ResampleSorted(sorted) ==
    BinRows(sorted, HourOf(sorted[1].timestamp), HourOf(sorted[Len(sorted)].timestamp))

\* df.resample('h').last(): one row per hour from the first to the last bin
Resample(rows) ==
    IF rows = <<>> THEN <<>> ELSE ResampleSorted(SortByTime(rows))

RECURSIVE FfillFrom(_, _, _, _)
FfillFrom(df, col, i, prev) ==
    IF i > Len(df) THEN <<>>
    ELSE LET v == IF df[i][col] # NaN THEN df[i][col] ELSE prev
         IN <<[df[i] EXCEPT ![col] = v]>> \o FfillFrom(df, col, i + 1, v)

\* Series.ffill() on one column of the frame
Ffill(df, col) == FfillFrom(df, col, 1, NaN)

RECURSIVE BfillFrom(_, _, _, _)
BfillFrom(df, col, i, next) ==
    IF i < 1 THEN <<>>
    ELSE LET v == IF df[i][col] # NaN THEN df[i][col] ELSE next
         IN BfillFrom(df, col, i - 1, v) \o <<[df[i] EXCEPT ![col] = v]>>

\* Series.bfill() on one column of the frame
Bfill(df, col) == BfillFrom(df, col, Len(df), NaN)

\* the backward fills before the forward fills: the mutant of FillResampled
FillBackwardFirst(df) ==
    LET b1 == Bfill(df, "funding_rate")
        b2 == Bfill(b1, "mark_price")
        b3 == Bfill(b2, "index_price")
        b4 == Bfill(b3, "funding_timestamp")
        f1 == Ffill(b4, "funding_rate")
        f2 == Ffill(f1, "mark_price")
        f3 == Ffill(f2, "index_price")
    IN Ffill(f3, "funding_timestamp")

\* converter lines 119-128: ffill of the four columns, then bfill of the four
FillResampled(df) ==
    LET f1 == Ffill(df, "funding_rate")
        f2 == Ffill(f1, "mark_price")
        f3 == Ffill(f2, "index_price")
        f4 == Ffill(f3, "funding_timestamp")
        b1 == Bfill(f4, "funding_rate")
        b2 == Bfill(b1, "mark_price")
        b3 == Bfill(b2, "index_price")
    IN Bfill(b3, "funding_timestamp")

\* converter lines 134-140: the rows of the day, [day_start, day_end)
DayRows(df, day_start, day_end) ==
    LET InDay(r) == r.datetime >= day_start /\ r.datetime < day_end
    IN SelectSeq(df, InDay)

\* the row of hour h after the left merge: the day's row, or an empty one
MergedRow(day_data, h) ==
    LET hit == {j \in 1..Len(day_data) : day_data[j].datetime = h}
    IN IF hit = {}
       THEN [datetime |-> h, funding_rate |-> NaN, mark_price |-> NaN,
             index_price |-> NaN, funding_timestamp |-> NaN]
       ELSE day_data[CHOOSE j \in hit : TRUE]

RECURSIVE MergeFrom(_, _, _)
MergeFrom(day_data, h, day_end) ==
    IF h >= day_end THEN <<>>
    ELSE <<MergedRow(day_data, h)>> \o MergeFrom(day_data, h + 1, day_end)

\* the merge without the fills after it: the mutant of CompleteDay
MergeOnly(day_data, day_start, day_end) == MergeFrom(day_data, day_start, day_end)

\* converter lines 147-156: left merge on the 24 hours, then ffill().bfill()
CompleteDay(day_data, day_start, day_end) ==
    LET merged == MergeFrom(day_data, day_start, day_end)
        c1 == Bfill(Ffill(merged, "funding_rate"), "funding_rate")
        c2 == Bfill(Ffill(c1, "mark_price"), "mark_price")
        c3 == Bfill(Ffill(c2, "index_price"), "index_price")
    IN Bfill(Ffill(c3, "funding_timestamp"), "funding_timestamp")

\* Series.round(8) of a value held in units of 1e-9 (half to even); NaN stays
Round8(v) ==
    IF v = NaN THEN NaN
    ELSE LET q == v \div 10
             r == v % 10
         IN IF r < 5 THEN q * 10
            ELSE IF r > 5 THEN (q + 1) * 10
            ELSE IF q % 2 = 0 THEN q * 10 ELSE (q + 1) * 10

\* converter lines 161-170: the output frame. `timestamp` is the hour's start in
\* epoch seconds (code: milliseconds), next_funding_time is microseconds // 1000.
OutputRows(day_data) ==
    [i \in 1..Len(day_data) |->
        [timestamp         |-> day_data[i].datetime * 3600,
         mark_price        |-> Round8(day_data[i].mark_price),
         index_price       |-> Round8(day_data[i].index_price),
         last_funding_rate |-> Round8(day_data[i].funding_rate),
         next_funding_time |-> day_data[i].funding_timestamp \div 1000]]

\* the output file name of the input day itself: the mutant of OutputName
SameDayName(input_date) == CsvName(MillisStr(Timegm(input_date, 0)))

\* converter lines 172-180
OutputName(input_date) == CsvName(MillisStr(ConvertTimestamp(input_date)))

NotWritten(reasons) == [write |-> FALSE, reasons |-> reasons, name |-> "", rows |-> <<>>]

\* converter lines 161-185: the output frame is built and saved
\* (astype(int) of a NaN funding_timestamp raises; caught at line 187)
WriteDay(input_date, day_data, row_count) ==
    IF \E i \in 1..Len(day_data) : day_data[i].funding_timestamp = NaN
    THEN NotWritten(row_count \cup {"error"})
    ELSE [write |-> TRUE, reasons |-> row_count, name |-> OutputName(input_date),
          rows |-> OutputRows(day_data)]

\* a row check that completes and writes whatever the day holds, even no row:
\* the mutant of CheckRows
CheckRowsNoSkip(input_date, day_rows, day_start, day_end) ==
    WriteDay(input_date, day_rows, {})

\* converter lines 142-159: the row count check and the completion to 24 rows
CheckRows(input_date, day_rows, day_start, day_end) ==
    IF Len(day_rows) = expected_rows THEN WriteDay(input_date, day_rows, {})
    ELSE IF Len(day_rows) > 0
         THEN WriteDay(input_date, CompleteDay(day_rows, day_start, day_end),
                       {"row_count"})
         ELSE NotWritten({"row_count"})

\* converter lines 109-140: resample, fill, keep the rows of the day
ResampleDay(input_date, rows, day_start) ==
    CheckRows(input_date,
              DayRows(FillResampled(Resample(rows)), day_start, day_start + 24),
              day_start, day_start + 24)

ConvertParsed(input_date, raw) ==
    IF input_date = NoDate THEN NotWritten({"bad_date"})
    ELSE ResampleDay(input_date, raw.rows, EpochDay(input_date) * 24)

\* converter lines 88-189: the body of the loop for one input file.
\* write: df_out.to_csv was reached; reasons: what was appended to problem_files.
ConvertFile(file_name, raw) ==
    IF raw.columns = {} THEN NotWritten({"error"})   \* read_csv raises on a 0-byte file
    ELSE IF ~(required_columns \subseteq raw.columns) THEN NotWritten({"missing_columns"})
    ELSE ConvertParsed(ParseDate(file_name), raw)

-----------------------------------------------------------------------------
(* convert_tardis_to_markprice_format over the whole input tree.           *)

EmptyDir == <<>>

Files(fs, symbol) == IF symbol \in DOMAIN fs THEN fs[symbol] ELSE EmptyDir

\* converter lines 84-189: the loop over the *.csv files of one directory.
\* acc: the output directory, the entries added to problem_files, the files written
AddFileResult(acc, f, r) ==
    [dir |-> IF r.write THEN (r.name :> r.rows) @@ acc.dir ELSE acc.dir,
     problems |-> acc.problems \cup {<<f, x>> : x \in r.reasons},
     written |-> IF r.write THEN acc.written \cup {r.name} ELSE acc.written,
     processed |-> acc.processed + (IF r.write THEN 1 ELSE 0)]

RECURSIVE ConvertFiles(_, _, _)
ConvertFiles(in_dir, names, acc) ==
    IF names = {} THEN acc
    ELSE LET f == CHOOSE n \in names : TRUE
         IN ConvertFiles(in_dir, names \ {f},
                         AddFileResult(acc, f, ConvertFile(f, in_dir[f])))

AddSymbolResult(acc, s, r) ==
    [output |-> (s :> r.dir) @@ acc.output,
     problems |-> acc.problems \cup {<<s, fx[1], fx[2]>> : fx \in r.problems},
     written |-> acc.written \cup {<<s, n>> : n \in r.written},
     processed |-> acc.processed + r.processed]

\* converter lines 73-189: the loop over the symbol directories, in sorted order;
\* os.makedirs creates the output directory before the files are read
RECURSIVE ConvertSymbols(_, _, _)
ConvertSymbols(input_fs, i, acc) ==
    IF i > Len(SymbolOrder) THEN acc
    ELSE LET s == SymbolOrder[i]
         IN IF s \notin DOMAIN input_fs
            THEN ConvertSymbols(input_fs, i + 1, acc)
            ELSE ConvertSymbols(input_fs, i + 1,
                    AddSymbolResult(acc, s,
                        ConvertFiles(input_fs[s], DOMAIN input_fs[s],
                            [dir |-> Files(acc.output, s), problems |-> {},
                             written |-> {}, processed |-> 0])))

\* converter lines 34-189: the symbols are the directories of the input root that
\* hold a funding_rate directory.  written: the files saved by this call, kept
\* for the record (the code counts them in processed_files)
ConvertAll(input_fs, output_fs) ==
    ConvertSymbols(input_fs, 1, [output |-> output_fs, problems |-> {},
                                 written |-> {}, processed |-> 0])

-----------------------------------------------------------------------------
(* Inputs of the stand-alone converter run.                                *)

\* minutes of the day at which raw rows are enumerated: 23:30 of the day before,
\* 09:13, 09:47, 10:00 and 14:30
ObsMinutes == {-30, 553, 587, 600, 870}
FundingRates == {NaN, 100000, 200000}
MarkPrices == {25}
IndexPrices == {7}
FundingTimestamps == {NaN, 28800999}

RawRows(date) ==
    [timestamp : {EpochDay(date) * 1440 + m : m \in ObsMinutes},
     funding_rate : FundingRates, mark_price : MarkPrices,
     index_price : IndexPrices, funding_timestamp : FundingTimestamps]

RawFiles(date) ==
    [columns : {required_columns},
     rows : UNION {[1..n -> RawRows(date)] : n \in 0..MaxObs}]

\* the two rows of the end-to-end scenario of the specification, complete rows
ScenarioFile(date) ==
    [columns |-> required_columns,
     rows |-> <<[timestamp |-> EpochDay(date) * 1440 + 553, funding_rate |-> 100000,
                 mark_price |-> 25, index_price |-> 7, funding_timestamp |-> 28800999],
                [timestamp |-> EpochDay(date) * 1440 + 587, funding_rate |-> 200000,
                 mark_price |-> 25, index_price |-> 7, funding_timestamp |-> 28800999]>>]

\* a file with its header and no row
EmptyFile == [columns |-> required_columns, rows |-> <<>>]

\* the day of the stand-alone converter run
ConvertDay == <<2025, 6, 1>>

-----------------------------------------------------------------------------
(* The stand-alone converter (converter lines 201-212).                    *)

\* no unit is being run again; the batch downloader is not running
NoRerun == [vendor |-> <<>>, attempt |-> 0, first |-> <<>>]
NoBatch == [pc |-> "none"]
NoResult == [success |-> 0, failed |-> 0, skipped |-> 0]
NoCleanup == [success |-> 0, failed |-> 0]
NoFS == <<>>
NoMatrix == [exists |-> FALSE, columns |-> <<>>, rows |-> <<>>]
NoUnit == [date |-> "", stages |-> <<>>, verdict |-> "none", fetch_ok |-> FALSE,
           extracted |-> 0, extract_success |-> 0, extract_errors |-> 0,
           written |-> {}, download_before |-> NoFS,
           archive_returned |-> "none", purged |-> {},
           before_purge |-> [download |-> NoFS, extract |-> NoFS, output |-> NoFS]]

\* the variables of the day pipeline, which the converter does not touch
PipelineUntouched ==
    UNCHANGED <<tz, availability_matrix, start_date, end_date, current_date,
                successful_days, failed_days, exit_code, symbols, fetch_requested,
                initial_files, final_downloaded, extracted_files, convert_result,
                compressed_files, cleanup_result, unit, unit_log, downloadFS,
                finalFS, io_faults, rerun, batch>>

InitConvert ==
    /\ pc = "convert_start"
    /\ tz = 0
    /\ availability_matrix = NoMatrix
    /\ start_date = ConvertDay /\ end_date = ConvertDay /\ current_date = ConvertDay
    /\ successful_days = 0 /\ failed_days = <<>> /\ exit_code = NoExit
    /\ symbols = <<>> /\ fetch_requested = {}
    /\ initial_files = {} /\ final_downloaded = {} /\ extracted_files = <<>>
    /\ convert_result = NoResult /\ compressed_files = 0 /\ cleanup_result = NoCleanup
    /\ unit = NoUnit /\ unit_log = <<>>
    /\ downloadFS = NoFS /\ finalFS = EmptyDir
    /\ \E raw \in RawFiles(ConvertDay) :
          extractFS = [s \in Symbols |->
                          [n \in {CsvName(DateStr(ConvertDay))} |->
                              IF s = "X" THEN raw ELSE ScenarioFile(ConvertDay)]]
    /\ outputFS = NoFS
    /\ problem_files = {} /\ processed_files = 0
    /\ io_faults = 0
    /\ rerun = NoRerun /\ batch = NoBatch

\* convert_tardis_to_markprice_format(input_base_path, output_base_path)
ConvertMain ==
    /\ pc = "convert_start"
    /\ \E r \in {ConvertAll(extractFS, outputFS)} :
          /\ outputFS' = r.output
          /\ problem_files' = r.problems
          /\ processed_files' = r.processed
    /\ pc' = "convert_done"
    /\ UNCHANGED extractFS
    /\ PipelineUntouched

NextConvert == ConvertMain

SpecConvert == InitConvert /\ [][NextConvert]_vars

-----------------------------------------------------------------------------
(* File trees.  A root maps a symbol to the files of its directory          *)
(* ({root}/{symbol}/funding_rate, or {root}/{symbol} under output); a       *)
(* symbol is in the DOMAIN exactly when its directory exists.               *)

HasFile(fs, s, n) == s \in DOMAIN fs /\ n \in DOMAIN fs[s]

PutFile(fs, s, n, content) == (s :> ((n :> content) @@ Files(fs, s))) @@ fs

Without(f, keys) ==
    IF DOMAIN f \subseteq keys THEN <<>> ELSE [k \in DOMAIN f \ keys |-> f[k]]

\* os.remove of the file n in each directory of dirs
RemoveFiles(fs, dirs, n) ==
    [s \in DOMAIN fs |-> IF s \in dirs THEN Without(fs[s], {n}) ELSE fs[s]]

\* cleanup_data lines 452-469: os.rmdir of the directories that are empty
RemoveEmptyDirs(fs, dirs) ==
    Without(fs, {s \in dirs \cap DOMAIN fs : DOMAIN fs[s] = {}})

SymbolSet(symbol_list) == {symbol_list[i] : i \in 1..Len(symbol_list)}

-----------------------------------------------------------------------------
(* Inputs of a pipeline run.                                                *)

\* UTC offsets of the machine: UTC, and UTC+8 (the author's)
TimeZones == {0, 8}

\* first date a run may name; with MaxDays >= 2 a run crosses into June
FirstDay == <<2025, 5, 31>>
RunDates == {AddDays(FirstDay, k) : k \in 0..(MaxDays - 1)}

\* res/availability_matrix.csv: first column the date, one column per symbol
MatrixColumns == SymbolOrder
FullRow == [s \in Symbols |-> 1]
FirstOnlyRow == [s \in Symbols |-> IF s = MatrixColumns[1] THEN 1 ELSE 0]
ZeroRow == [s \in Symbols |-> 0]
RowChoices == {FullRow, FirstOnlyRow, ZeroRow}

DateOf(date_str) == CHOOSE d \in RunDates : DateStr(d) = date_str

\* every matrix whose rows are a subset of the run dates
Matrices ==
    {[exists |-> TRUE, columns |-> MatrixColumns,
      rows |-> [ds \in {DateStr(d) : d \in DOMAIN r} |-> r[DateOf(ds)]]] :
        r \in UNION {[present -> RowChoices] : present \in SUBSET RunDates}}

\* what the vendor holds for a symbol and day: nothing, the two-row file of
\* the scenario, a file with no rows, or bytes that are no gzip stream
AllKinds == {"none", "scenario", "empty", "corrupt"}
VendorKinds(s) == IF s = MatrixColumns[1] THEN AllKinds ELSE {"none", "scenario"}

\* a 0-byte csv file
ZeroByteFile == [columns |-> {}, rows |-> <<>>]

GzFile(kind, date) ==
    CASE kind = "scenario" -> [ok |-> TRUE, data |-> ScenarioFile(date)]
      [] kind = "empty" -> [ok |-> TRUE, data |-> EmptyFile]
      [] OTHER -> [ok |-> FALSE, data |-> ZeroByteFile]

Deliveries(missing) ==
    {d \in [missing -> AllKinds] : \A s \in missing : d[s] \in VendorKinds(s)}

\* download files left by an earlier run that stopped after Fetch
LeftoverDownloads(date) ==
    [s \in Symbols |-> (GzName(DateStr(date)) :> GzFile("scenario", date))]

-----------------------------------------------------------------------------
(* main() of app_download_funding_rate.py                                   *)

\* get_available_symbols_for_date (lines 59-82)
RECURSIVE FlaggedFrom(_, _, _)
FlaggedFrom(row, columns, i) ==
    IF i > Len(columns) THEN <<>>
    ELSE (IF row[columns[i]] = 1 THEN <<columns[i]>> ELSE <<>>)
         \o FlaggedFrom(row, columns, i + 1)

\* (mutant: FlaggedSorted lists the flagged symbols in alphabetical order)
FlaggedSorted(matrix, date_str) ==
    IF date_str \notin DOMAIN matrix.rows THEN <<>>
    ELSE FlaggedFrom(matrix.rows[date_str], SymbolOrder, 1)

get_available_symbols_for_date(matrix, date_str) ==
    IF date_str \notin DOMAIN matrix.rows THEN <<>>
    ELSE FlaggedFrom(matrix.rows[date_str], matrix.columns, 1)

\* ---- the availability lookup on its own ----
\* cells of the matrix file: 0, 1, or an empty cell (read as NaN)
FlagValues == {0, 1, NaN}
ColumnOrders == {SymbolOrder, <<"Y", "X">>}
\* a day after every row of the matrix
UnlistedDay == AddDays(FirstDay, MaxDays)
LookupMatrices ==
    {[exists |-> TRUE, columns |-> c,
      rows |-> [ds \in {DateStr(d) : d \in DOMAIN r} |-> r[DateOf(ds)]]] :
        c \in ColumnOrders,
        r \in UNION {[present -> [Symbols -> FlagValues]] :
                        present \in SUBSET RunDates}}

InitLookup ==
    /\ pc = "lookup_start"
    /\ tz = 0
    /\ availability_matrix \in LookupMatrices
    /\ current_date \in RunDates \cup {UnlistedDay}
    /\ start_date = current_date /\ end_date = current_date
    /\ successful_days = 0 /\ failed_days = <<>> /\ exit_code = NoExit
    /\ symbols = <<>> /\ fetch_requested = {}
    /\ initial_files = {} /\ final_downloaded = {} /\ extracted_files = <<>>
    /\ convert_result = NoResult /\ compressed_files = 0 /\ cleanup_result = NoCleanup
    /\ unit = NoUnit /\ unit_log = <<>>
    /\ downloadFS = NoFS /\ extractFS = NoFS /\ outputFS = NoFS /\ finalFS = EmptyDir
    /\ problem_files = {} /\ processed_files = 0
    /\ io_faults = 0
    /\ rerun = NoRerun /\ batch = NoBatch

\* symbols = get_available_symbols_for_date(availability_matrix, date_str)
\* (process_single_date line 496)
Lookup ==
    /\ pc = "lookup_start"
    /\ symbols' = get_available_symbols_for_date(availability_matrix,
                                                  DateStr(current_date))
    /\ pc' = "lookup_done"
    /\ UNCHANGED <<tz, availability_matrix, start_date, end_date, current_date,
                   successful_days, failed_days, exit_code, fetch_requested,
                   initial_files, final_downloaded, extracted_files,
                   convert_result, compressed_files, cleanup_result, unit,
                   unit_log, downloadFS, extractFS, outputFS, finalFS,
                   problem_files, processed_files, io_faults, rerun, batch>>

NextLookup == Lookup

SpecLookup == InitLookup /\ [][NextLookup]_vars

\* main line 708 (mutant: AlwaysZero)
AlwaysZero(failed) == 0
ExitStatus(failed) == IF Len(failed) = 0 THEN 0 ELSE 1

config == <<tz, availability_matrix, start_date, end_date>>
loop_vars == <<current_date, successful_days, failed_days, unit_log>>
day_vars == <<symbols, fetch_requested, initial_files, final_downloaded,
              extracted_files, convert_result, compressed_files, cleanup_result>>
fs_vars == <<downloadFS, extractFS, outputFS, finalFS>>
conv_vars == <<problem_files, processed_files>>

Init ==
    /\ pc = "main"
    /\ tz \in TimeZones
    /\ availability_matrix \in {NoMatrix} \cup Matrices
    /\ start_date \in RunDates /\ end_date \in RunDates
    /\ current_date = start_date
    /\ successful_days = 0 /\ failed_days = <<>> /\ exit_code = NoExit
    /\ symbols = <<>> /\ fetch_requested = {}
    /\ initial_files = {} /\ final_downloaded = {} /\ extracted_files = <<>>
    /\ convert_result = NoResult /\ compressed_files = 0 /\ cleanup_result = NoCleanup
    /\ unit = NoUnit /\ unit_log = <<>>
    /\ downloadFS \in {NoFS, LeftoverDownloads(start_date)}
    /\ extractFS = NoFS /\ outputFS = NoFS /\ finalFS = EmptyDir
    /\ problem_files = {} /\ processed_files = 0
    /\ io_faults = 0
    /\ rerun = NoRerun /\ batch = NoBatch

\* lines 626-629
RejectRange ==
    /\ pc = "main"
    /\ ~DateLE(start_date, end_date)
    /\ exit_code' = 1
    /\ pc' = "aborted"
    /\ UNCHANGED <<config, io_faults, rerun, batch, loop_vars, day_vars, fs_vars, conv_vars, unit>>

\* (mutant: IgnoreMatrix starts the loop although the matrix file is missing)
IgnoreMatrix ==
    /\ pc = "main"
    /\ DateLE(start_date, end_date)
    /\ ~availability_matrix.exists
    /\ current_date' = start_date
    /\ successful_days' = 0
    /\ failed_days' = <<>>
    /\ pc' = "loop"
    /\ UNCHANGED <<config, io_faults, rerun, batch, unit_log, day_vars, fs_vars, conv_vars, unit, exit_code>>

\* lines 643-647
RejectMatrix ==
    /\ pc = "main"
    /\ DateLE(start_date, end_date)
    /\ ~availability_matrix.exists
    /\ exit_code' = 1
    /\ pc' = "aborted"
    /\ UNCHANGED <<config, io_faults, rerun, batch, loop_vars, day_vars, fs_vars, conv_vars, unit>>

\* lines 665-668: the operator answers no
Decline ==
    /\ pc = "main"
    /\ DateLE(start_date, end_date)
    /\ availability_matrix.exists
    /\ exit_code' = 0
    /\ pc' = "aborted"
    /\ UNCHANGED <<config, io_faults, rerun, batch, loop_vars, day_vars, fs_vars, conv_vars, unit>>

\* lines 665-674: the operator answers yes
Confirm ==
    /\ pc = "main"
    /\ DateLE(start_date, end_date)
    /\ availability_matrix.exists
    /\ current_date' = start_date
    /\ successful_days' = 0
    /\ failed_days' = <<>>
    /\ pc' = "loop"
    /\ UNCHANGED <<config, io_faults, rerun, batch, unit_log, day_vars, fs_vars, conv_vars, unit, exit_code>>

\* lines 689-697: process_single_date returned result
Return(result, u) ==
    /\ unit' = [u EXCEPT !.verdict = IF result THEN "true" ELSE "false"]
    /\ unit_log' = Append(unit_log, [date |-> u.date, verdict |-> result])
    /\ successful_days' = IF result THEN successful_days + 1 ELSE successful_days
    /\ failed_days' = IF result THEN failed_days ELSE Append(failed_days, u.date)
    /\ current_date' = NextDay(current_date)
    /\ pc' = "loop"

NewUnit(date_str) == [NoUnit EXCEPT !.date = date_str, !.verdict = "running"]

ResetDay ==
    /\ fetch_requested' = {} /\ initial_files' = {} /\ final_downloaded' = {}
    /\ extracted_files' = <<>> /\ convert_result' = NoResult
    /\ compressed_files' = 0 /\ cleanup_result' = NoCleanup

\* lines 684-689 and process_single_date lines 497-502: the day has symbols
StartDay ==
    /\ pc = "loop"
    /\ DateLE(current_date, end_date)
    /\ \E syms \in {get_available_symbols_for_date(availability_matrix,
                                                    DateStr(current_date))} :
          /\ syms # <<>>
          /\ symbols' = syms
    /\ unit' = NewUnit(DateStr(current_date))
    /\ ResetDay
    /\ pc' = "fetch"
    /\ UNCHANGED <<config, io_faults, rerun, batch, loop_vars, fs_vars, conv_vars, exit_code>>

\* process_single_date lines 497-500: no symbol, the unit returns False
SkipDay ==
    /\ pc = "loop"
    /\ DateLE(current_date, end_date)
    /\ get_available_symbols_for_date(availability_matrix, DateStr(current_date)) = <<>>
    /\ symbols' = <<>>
    /\ ResetDay
    /\ Return(FALSE, NewUnit(DateStr(current_date)))
    /\ UNCHANGED <<config, io_faults, rerun, batch, fs_vars, conv_vars, exit_code>>

\* lines 699-708
Finish ==
    /\ pc = "loop"
    /\ ~DateLE(current_date, end_date)
    /\ exit_code' = ExitStatus(failed_days)
    /\ pc' = "done"
    /\ UNCHANGED <<config, io_faults, rerun, batch, loop_vars, day_vars, fs_vars, conv_vars, unit>>

-----------------------------------------------------------------------------
(* process_single_date: the five stages of a day unit.                      *)

\* datasets.download(symbols, day): the fetch collaborator.  A target that
\* exists is not fetched again; a missing one is written when the vendor
\* holds it (d: what the vendor holds for each requested symbol)
Download(fs, d, date) ==
    [s \in DOMAIN fs \cup {t \in DOMAIN d : d[t] # "none"} |->
        IF s \in DOMAIN d /\ d[s] # "none" /\ ~HasFile(fs, s, GzName(DateStr(date)))
        THEN (GzName(DateStr(date)) :> GzFile(d[s], date)) @@ Files(fs, s)
        ELSE fs[s]]

\* os.path.exists over the symbols of the day (cleanup_data lines 419, 431, 443)
Existing(fs, symbol_list, n) == {s \in SymbolSet(symbol_list) : HasFile(fs, s, n)}

\* a check that finds no target (mutant of ExistingTargets)
NoTargets(fs, symbol_list, date_str) == {}

\* download_funding_rate_data lines 112-116 and 154-158: the symbols whose
\* target {symbol}/funding_rate/{day}.csv.gz exists
ExistingTargets(fs, symbol_list, date_str) ==
    {s \in SymbolSet(symbol_list) : HasFile(fs, s, GzName(date_str))}

\* download_funding_rate_data (lines 85-174), the download returns
FetchReturns ==
    /\ pc = "fetch"
    /\ initial_files' = ExistingTargets(downloadFS, symbols, unit.date)
    /\ fetch_requested' = SymbolSet(symbols)
    /\ \E d \in Deliveries(fetch_requested') :
          downloadFS' = Download(downloadFS, d, current_date)
    /\ final_downloaded' = ExistingTargets(downloadFS', symbols, unit.date)
    /\ unit' = [unit EXCEPT !.stages = Append(@, "fetch"), !.fetch_ok = TRUE,
                            !.download_before = downloadFS]
    /\ pc' = "extract"
    /\ UNCHANGED <<config, io_faults, rerun, batch, loop_vars, symbols, extracted_files, convert_result,
                   compressed_files, cleanup_result, extractFS, outputFS, finalFS,
                   conv_vars, exit_code>>

\* (mutant: FetchRaisesContinue goes on to Extract after the download raised)
FetchRaisesContinue ==
    /\ pc = "fetch"
    /\ initial_files' = ExistingTargets(downloadFS, symbols, unit.date)
    /\ fetch_requested' = SymbolSet(symbols)
    /\ unit' = [unit EXCEPT !.stages = Append(@, "fetch"),
                            !.download_before = downloadFS]
    /\ pc' = "extract"
    /\ UNCHANGED <<config, io_faults, rerun, batch, loop_vars, symbols, final_downloaded, extracted_files,
                   convert_result, compressed_files, cleanup_result, fs_vars,
                   conv_vars, exit_code>>

\* download_funding_rate_data line 173-174 and process_single_date 535-537:
\* the download raises, the unit returns False
FetchRaises ==
    /\ pc = "fetch"
    /\ initial_files' = ExistingTargets(downloadFS, symbols, unit.date)
    /\ fetch_requested' = SymbolSet(symbols)
    /\ Return(FALSE, [unit EXCEPT !.stages = Append(@, "fetch"),
                                  !.download_before = downloadFS])
    /\ UNCHANGED <<config, io_faults, rerun, batch, symbols, final_downloaded, extracted_files, convert_result,
                   compressed_files, cleanup_result, fs_vars, conv_vars, exit_code>>

\* (mutant: ExtractExclusive refuses to write over an extracted file)
ExtractExclusive(acc, gz, s, csv_name) ==
    IF gz.ok /\ ~HasFile(acc.fs, s, csv_name)
    THEN [fs |-> PutFile(acc.fs, s, csv_name, gz.data),
          files |-> Append(acc.files, <<s, csv_name>>),
          success_count |-> acc.success_count + 1,
          error_count |-> acc.error_count]
    ELSE [fs |-> acc.fs,
          files |-> acc.files,
          success_count |-> acc.success_count,
          error_count |-> acc.error_count + 1]

\* extract_gz_file (lines 177-204): the output file is opened for writing
\* before the first byte is read, so a bad stream leaves it empty
ExtractSymbol(acc, gz, s, csv_name) ==
    IF gz.ok
    THEN [fs |-> PutFile(acc.fs, s, csv_name, gz.data),
          files |-> Append(acc.files, <<s, csv_name>>),
          success_count |-> acc.success_count + 1,
          error_count |-> acc.error_count]
    ELSE [fs |-> PutFile(acc.fs, s, csv_name, ZeroByteFile),
          files |-> acc.files,
          success_count |-> acc.success_count,
          error_count |-> acc.error_count + 1]

\* (mutant: ExtractUntilError gives up at the first symbol without a file)
RECURSIVE ExtractUntilError(_, _, _, _, _)
ExtractUntilError(gz_fs, date_str, symbol_list, i, acc) ==
    IF i > Len(symbol_list) THEN acc
    ELSE IF HasFile(gz_fs, symbol_list[i], GzName(date_str))
         THEN ExtractUntilError(gz_fs, date_str, symbol_list, i + 1,
                 ExtractSymbol(acc, gz_fs[symbol_list[i]][GzName(date_str)],
                               symbol_list[i], CsvName(date_str)))
         ELSE [acc EXCEPT !.error_count = @ + 1]

\* extract_day_data (lines 207-267)
RECURSIVE ExtractFrom(_, _, _, _, _)
ExtractFrom(gz_fs, date_str, symbol_list, i, acc) ==
    IF i > Len(symbol_list) THEN acc
    ELSE ExtractFrom(gz_fs, date_str, symbol_list, i + 1,
            IF HasFile(gz_fs, symbol_list[i], GzName(date_str))
            THEN ExtractSymbol(acc, gz_fs[symbol_list[i]][GzName(date_str)],
                               symbol_list[i], CsvName(date_str))
            ELSE [acc EXCEPT !.error_count = @ + 1])

extract_day_data(date_str, gz_fs, extract_fs, symbol_list) ==
    ExtractFrom(gz_fs, date_str, symbol_list, 1,
                [fs |-> extract_fs, files |-> <<>>,
                 success_count |-> 0, error_count |-> 0])

\* (mutant: ExtractNoAbort goes on to Convert with nothing extracted)
ExtractNoAbort ==
    /\ pc = "extract"
    /\ \E r \in {extract_day_data(unit.date, downloadFS, extractFS, symbols)} :
          /\ extractFS' = r.fs
          /\ extracted_files' = r.files
          /\ unit' = [unit EXCEPT !.stages = Append(@, "extract"),
                                  !.extracted = Len(r.files),
                                  !.extract_success = r.success_count,
                                  !.extract_errors = r.error_count]
    /\ pc' = "convert"
    /\ UNCHANGED <<config, io_faults, rerun, batch, loop_vars, symbols, fetch_requested,
                   initial_files, final_downloaded, convert_result,
                   compressed_files, cleanup_result, downloadFS, outputFS,
                   finalFS, conv_vars, exit_code>>

\* process_single_date lines 511-514
Extract ==
    /\ pc = "extract"
    /\ \E r \in {extract_day_data(unit.date, downloadFS, extractFS, symbols)} :
          /\ extractFS' = r.fs
          /\ extracted_files' = r.files
          /\ LET u == [unit EXCEPT !.stages = Append(@, "extract"),
                                   !.extracted = Len(r.files),
                                   !.extract_success = r.success_count,
                                   !.extract_errors = r.error_count]
             IN IF r.files = <<>>
                THEN Return(FALSE, u)
                ELSE /\ unit' = u
                     /\ pc' = "convert"
                     /\ UNCHANGED loop_vars
    /\ UNCHANGED <<config, io_faults, rerun, batch, symbols, fetch_requested, initial_files, final_downloaded,
                   convert_result, compressed_files, cleanup_result, downloadFS,
                   outputFS, finalFS, conv_vars, exit_code>>

\* convert_day_data lines 298-308: a symbol counts when its output directory
\* holds any csv file
ConvertedSymbols(output_fs, symbol_list) ==
    {s \in SymbolSet(symbol_list) : s \in DOMAIN output_fs /\ DOMAIN output_fs[s] # {}}

\* convert_day_data (lines 274-321) and process_single_date lines 518-521
Convert ==
    /\ pc = "convert"
    /\ \E r \in {ConvertAll(extractFS, outputFS)} :
          /\ outputFS' = r.output
          /\ problem_files' = r.problems
          /\ processed_files' = r.processed
          /\ \E n \in {Cardinality(ConvertedSymbols(r.output, symbols))} :
                /\ convert_result' = [success |-> n, failed |-> Len(symbols) - n,
                                      skipped |-> 0]
                /\ LET u == [unit EXCEPT
                                !.stages = Append(@, "convert"),
                                !.written = {w \in r.written :
                                                w[2] = OutputName(current_date)}]
                   IN IF n = 0
                      THEN Return(FALSE, u)
                      ELSE /\ unit' = u
                           /\ pc' = "archive"
                           /\ UNCHANGED loop_vars
    /\ UNCHANGED <<config, io_faults, rerun, batch, symbols, fetch_requested, initial_files, final_downloaded,
                   extracted_files, compressed_files, cleanup_result, downloadFS,
                   extractFS, finalFS, exit_code>>

ArchiveName(date, offset) == CsvName(MillisStr(ArchiveTimestamp(date, offset)))
PurgeName(date, offset) == CsvName(MillisStr(PurgeTimestamp(date, offset)))

\* compress_day_data lines 353-365: the members added to the tar
TarMembers(output_fs, n) ==
    {<<s, n, output_fs[s][n]>> : s \in {t \in DOMAIN output_fs : n \in DOMAIN output_fs[t]}}

\* compress_day_data (lines 324-376): tarfile.open(.., 'w:gz') creates the
\* file before the directories are walked
Archive ==
    /\ pc = "archive"
    /\ \E members \in {TarMembers(outputFS, ArchiveName(current_date, tz))} :
          /\ finalFS' = (TarName(unit.date) :> members) @@ finalFS
          /\ compressed_files' = Cardinality(members)
          /\ unit' = [unit EXCEPT !.stages = Append(@, "archive"),
                                  !.archive_returned =
                                      IF members # {} THEN "true" ELSE "false"]
    /\ pc' = "purge"
    /\ UNCHANGED <<config, io_faults, rerun, batch, loop_vars, symbols, fetch_requested, initial_files,
                   final_downloaded, extracted_files, convert_result, cleanup_result,
                   downloadFS, extractFS, outputFS, conv_vars, exit_code>>

\* compress_day_data lines 374-376 and process_single_date lines 525-526:
\* creating the final directory or opening the tar raises (no container is
\* written), the function returns False and the unit goes on to the cleanup
ArchiveRaises ==
    /\ pc = "archive"
    /\ io_faults < MaxFaults
    /\ io_faults' = io_faults + 1
    /\ compressed_files' = 0
    /\ unit' = [unit EXCEPT !.stages = Append(@, "archive"),
                            !.archive_returned = "raised"]
    /\ pc' = "purge"
    /\ UNCHANGED <<config, rerun, batch, loop_vars, symbols, fetch_requested, initial_files,
                   final_downloaded, extracted_files, convert_result, cleanup_result,
                   fs_vars, conv_vars, exit_code>>

Roots == {"download", "extract", "output"}

\* one loop of cleanup_data over a root; fails: os.remove raises in this root
PurgeRoot(fs, symbol_list, n, fails) ==
    RemoveEmptyDirs(IF fails THEN fs
                    ELSE RemoveFiles(fs, Existing(fs, symbol_list, n), n),
                    SymbolSet(symbol_list))

PurgeCount(fs, symbol_list, n) == Cardinality(Existing(fs, symbol_list, n))

\* cleanup_data (lines 379-478) and process_single_date lines 530-533
Purge ==
    /\ pc = "purge"
    /\ \E bad \in (IF io_faults < MaxFaults THEN Roots ELSE {}) \cup {"none"} :
          /\ downloadFS' = PurgeRoot(downloadFS, symbols, GzName(unit.date),
                                     bad = "download")
          /\ extractFS' = PurgeRoot(extractFS, symbols, CsvName(unit.date),
                                    bad = "extract")
          /\ outputFS' = PurgeRoot(outputFS, symbols, PurgeName(current_date, tz),
                                   bad = "output")
          /\ \E c \in {<<PurgeCount(downloadFS, symbols, GzName(unit.date)),
                         PurgeCount(extractFS, symbols, CsvName(unit.date)),
                         PurgeCount(outputFS, symbols, PurgeName(current_date, tz))>>} :
                cleanup_result' =
                    [success |-> (IF bad = "download" THEN 0 ELSE c[1])
                                 + (IF bad = "extract" THEN 0 ELSE c[2])
                                 + (IF bad = "output" THEN 0 ELSE c[3]),
                     failed |-> (IF bad = "download" THEN c[1] ELSE 0)
                                + (IF bad = "extract" THEN c[2] ELSE 0)
                                + (IF bad = "output" THEN c[3] ELSE 0)]
          /\ io_faults' = IF cleanup_result'.failed > 0 THEN io_faults + 1
                          ELSE io_faults
          /\ Return(TRUE, [unit EXCEPT
                              !.stages = Append(@, "purge"),
                              !.before_purge = [download |-> downloadFS,
                                                extract |-> extractFS,
                                                output |-> outputFS],
                              !.purged = IF bad = "output" THEN {}
                                         ELSE {m \in TarMembers(outputFS,
                                                      PurgeName(current_date, tz)) :
                                                  m[1] \in SymbolSet(symbols)}])
    /\ UNCHANGED <<config, rerun, batch, symbols, fetch_requested, initial_files, final_downloaded,
                   extracted_files, convert_result, compressed_files, finalFS,
                   conv_vars, exit_code>>

Next ==
    \/ RejectRange \/ RejectMatrix \/ Decline \/ Confirm
    \/ StartDay \/ SkipDay
    \/ FetchReturns \/ FetchRaises
    \/ Extract \/ Convert \/ Archive \/ ArchiveRaises \/ Purge
    \/ Finish

Spec == Init /\ [][Next]_vars

\* The steps of main() outside process_single_date.
MainSteps ==
    \/ RejectRange \/ RejectMatrix \/ Decline \/ Confirm
    \/ StartDay \/ SkipDay
    \/ Finish

\* A stage of process_single_date is enabled exactly when pc names it, and
\* each of its steps (FetchReturns, FetchRaises, Extract, Convert, Archive,
\* ArchiveRaises, Purge) moves pc on: the step as far as pc shows it.
StageStep ==
    \/ pc = "fetch" /\ pc' \in {"extract", "loop"}
    \/ pc = "extract" /\ pc' \in {"convert", "loop"}
    \/ pc = "convert" /\ pc' \in {"archive", "loop"}
    \/ pc = "archive" /\ pc' = "purge"
    \/ pc = "purge" /\ pc' = "loop"

\* the script is one sequential process: it always takes its next step
FairSpec == Spec /\ WF_vars(MainSteps) /\ WF_pc(StageStep)

\* ---- a run the operator may interrupt ----
\* main lines 710-712: KeyboardInterrupt is raised at the point the script
\* has reached; no handler inside process_single_date catches it (they catch
\* Exception), so it ends the run at once with exit code 1
Interrupt ==
    /\ pc \in {"loop", "fetch", "extract", "convert", "archive", "purge"}
    /\ exit_code' = 1
    /\ pc' = "aborted"
    /\ UNCHANGED <<config, io_faults, rerun, batch, loop_vars, day_vars, fs_vars, conv_vars, unit>>

NextInterrupt == Next \/ Interrupt

SpecInterrupt == Init /\ [][NextInterrupt]_vars

\* ---- one day unit, run a second time over what the first run left ----
\* The operator names one day (start = end), the directories are empty, the
\* vendor holds the same files for both runs, and the day has symbols.
RerunMatrices ==
    {[exists |-> TRUE, columns |-> MatrixColumns,
      rows |-> (DateStr(FirstDay) :> r)] : r \in {FullRow, FirstOnlyRow}}

InitRerun ==
    /\ pc = "main"
    /\ tz \in TimeZones
    /\ availability_matrix \in RerunMatrices
    /\ start_date = FirstDay /\ end_date = FirstDay
    /\ current_date = start_date
    /\ successful_days = 0 /\ failed_days = <<>> /\ exit_code = NoExit
    /\ symbols = <<>> /\ fetch_requested = {}
    /\ initial_files = {} /\ final_downloaded = {} /\ extracted_files = <<>>
    /\ convert_result = NoResult /\ compressed_files = 0 /\ cleanup_result = NoCleanup
    /\ unit = NoUnit /\ unit_log = <<>>
    /\ downloadFS = NoFS /\ extractFS = NoFS /\ outputFS = NoFS /\ finalFS = EmptyDir
    /\ problem_files = {} /\ processed_files = 0
    /\ io_faults = 0
    /\ rerun \in {[vendor |-> v, attempt |-> 1, first |-> <<>>] : v \in Deliveries(Symbols)}
    /\ batch = NoBatch

\* download_funding_rate_data (lines 85-174) against the files the vendor holds
FetchHeld ==
    /\ FetchReturns
    /\ downloadFS' = Download(downloadFS,
                              [s \in fetch_requested' |-> rerun.vendor[s]],
                              current_date)

\* faults and the interrupt strike the first run only
FetchRaisesOnce == rerun.attempt = 1 /\ FetchRaises
InterruptOnce == rerun.attempt = 1 /\ Interrupt

\* KeyboardInterrupt in the middle of a stage of the first run: the stage has
\* opened a file and not finished it (extract_gz_file line 189, to_csv in the
\* converter, tarfile.open line 353), or cleanup_data has emptied the download
\* root only (lines 412-425)
InterruptWithin ==
    /\ rerun.attempt = 1
    /\ \/ /\ pc = "extract"
          /\ \E s \in ExistingTargets(downloadFS, symbols, unit.date) :
                extractFS' = PutFile(extractFS, s, CsvName(unit.date), ZeroByteFile)
          /\ UNCHANGED <<downloadFS, outputFS, finalFS>>
       \/ /\ pc = "convert"
          /\ \E w \in ConvertAll(extractFS, outputFS).written :
                outputFS' = PutFile(outputFS, w[1], w[2], ZeroByteFile)
          /\ UNCHANGED <<downloadFS, extractFS, finalFS>>
       \/ /\ pc = "archive"
          /\ finalFS' = (TarName(unit.date) :> {}) @@ finalFS
          /\ UNCHANGED <<downloadFS, extractFS, outputFS>>
       \/ /\ pc = "purge"
          /\ downloadFS' = PurgeRoot(downloadFS, symbols, GzName(unit.date), FALSE)
          /\ UNCHANGED <<extractFS, outputFS, finalFS>>
    /\ exit_code' = 1
    /\ pc' = "aborted"
    /\ UNCHANGED <<config, io_faults, rerun, batch, loop_vars, day_vars, conv_vars, unit>>

\* the script is started again with the same answers (main lines 599-625):
\* a new process over the directories as the first one left them
RunAgain ==
    /\ pc \in {"done", "aborted"}
    /\ rerun.attempt = 1
    /\ rerun' = [rerun EXCEPT !.attempt = 2,
                              !.first = [verdict |-> unit.verdict,
                                         stages |-> unit.stages,
                                         faults |-> io_faults,
                                         exit_code |-> exit_code]]
    /\ pc' = "main"
    /\ current_date' = start_date
    /\ successful_days' = 0 /\ failed_days' = <<>> /\ exit_code' = NoExit
    /\ symbols' = <<>>
    /\ ResetDay
    /\ unit' = NoUnit /\ unit_log' = <<>>
    /\ problem_files' = {} /\ processed_files' = 0
    /\ io_faults' = MaxFaults
    /\ UNCHANGED <<config, batch, fs_vars>>

NextRerun ==
    \/ Confirm \/ StartDay
    \/ FetchHeld \/ FetchRaisesOnce
    \/ Extract \/ Convert \/ Archive \/ ArchiveRaises \/ Purge
    \/ Finish
    \/ InterruptOnce \/ InterruptWithin \/ RunAgain

SpecRerun == InitRerun /\ [][NextRerun]_vars

-----------------------------------------------------------------------------
(* download-async.py and download-async-sy.py: the batch downloader.       *)

MaxSpan == 75
retries == 3
timeout == 300
Backoff == 2
MonthStep == 32

Scripts == {"download-async.py", "download-async-sy.py"}

\* max_workers: line 120 of download-async.py, line 122 of download-async-sy.py
max_workers(script) == IF script = "download-async.py" THEN 1 ELSE 2

\* download-async.py loops over the periods a second time (lines 169-200);
\* in download-async-sy.py that loop is commented out
Passes(script) == IF script = "download-async.py" THEN 2 ELSE 1

\* eligible_symbols: the fixed list (download-async.py line 145), or the
\* columns of need_matrix.csv with a positive sum over the period
\* (download-async-sy.py lines 162-163)
EligibleLists(script) ==
    IF script = "download-async.py" THEN {SymbolOrder}
    ELSE {<<>>, <<SymbolOrder[1]>>, <<SymbolOrder[2]>>, SymbolOrder}

\* generate_monthly_intervals (lines 89-113): the loop from current_date on
RECURSIVE MonthlyFrom(_, _, _)
MonthlyFrom(month_start, end, intervals) ==
    IF ~DateLE(month_start, end) THEN intervals
    ELSE LET next_month == AddDays(month_start, MonthStep)
             last_day == PrevDay(<<next_month[1], next_month[2], 1>>)
             month_end == IF ~DateLE(last_day, end) THEN end ELSE last_day
         IN MonthlyFrom(NextDay(month_end), end,
                        Append(intervals, <<month_start, month_end>>))

generate_monthly_intervals(first, last) == MonthlyFrom(first, last, <<>>)

\* the dates a check of generate_monthly_intervals draws from: the turn of a
\* year and a leap February
FirstIntervalDate == <<2023, 12, 25>>
IntervalDates ==
    {d \in (FirstIntervalDate[1]..(FirstIntervalDate[1] + 1)) \X (1..12) \X (1..31) :
        /\ d[3] <= DaysInMonth(d[1], d[2])
        /\ ToOrdinal(d) - ToOrdinal(FirstIntervalDate) \in 0..(MaxSpan - 1)}

\* a task of the pool: download_data_with_retry for one symbol
NewTask == [state |-> "queued", attempts |-> 0, result |-> "none",
            slept |-> 0, collected |-> FALSE, timeout |-> timeout]

\* the app_download_funding_rate.py process is not part of a batch run
AppIdle ==
    /\ pc = "batch"
    /\ tz = 0
    /\ availability_matrix = NoMatrix
    /\ start_date = NoDate /\ end_date = NoDate /\ current_date = NoDate
    /\ successful_days = 0 /\ failed_days = <<>> /\ exit_code = NoExit
    /\ symbols = <<>> /\ fetch_requested = {}
    /\ initial_files = {} /\ final_downloaded = {} /\ extracted_files = <<>>
    /\ convert_result = NoResult /\ compressed_files = 0 /\ cleanup_result = NoCleanup
    /\ unit = NoUnit /\ unit_log = <<>>
    /\ downloadFS = NoFS /\ extractFS = NoFS /\ outputFS = NoFS /\ finalFS = EmptyDir
    /\ problem_files = {} /\ processed_files = 0
    /\ io_faults = 0
    /\ rerun = NoRerun

AppUntouched ==
    UNCHANGED <<pc, config, io_faults, rerun, loop_vars, day_vars, fs_vars,
                conv_vars, unit, exit_code>>

BatchStart(script, first, last) ==
    [script |-> script, start_date |-> first, end_date |-> last, pc |-> "main",
     monthly_intervals |-> <<>>, pass |-> 1, index |-> 1,
     tasks |-> <<>>, queue |-> <<>>]

\* ---- generate_monthly_intervals on its own ----
InitIntervals ==
    /\ AppIdle
    /\ batch \in {BatchStart("download-async.py", a, b) :
                      a \in IntervalDates, b \in IntervalDates}

\* line 128: monthly_intervals = generate_monthly_intervals(_start_date, _end_date)
GenerateIntervals ==
    /\ batch.pc = "main"
    /\ batch' = [batch EXCEPT
                    !.monthly_intervals =
                        generate_monthly_intervals(batch.start_date, batch.end_date),
                    !.pc = "submit"]
    /\ AppUntouched

NextIntervals == GenerateIntervals

SpecIntervals == InitIntervals /\ [][NextIntervals]_vars

\* ---- the period loop and the worker pool ----
\* ranges of one and of two periods
BatchRanges == {<<<<2024, 1, 1>>, <<2024, 1, 20>>>>, <<<<2024, 1, 1>>, <<2024, 2, 10>>>>}

InitBatch ==
    /\ AppIdle
    /\ batch \in {BatchStart(script, r[1], r[2]) : script \in Scripts, r \in BatchRanges}

\* the periods of a pass: all of them, then monthly_intervals[1:]
Periods(b) ==
    IF b.pass = 1 THEN Len(b.monthly_intervals) ELSE Len(b.monthly_intervals) - 1

\* tasks a worker thread is executing
Busy(b) == {s \in DOMAIN b.tasks : b.tasks[s].state \in {"running", "sleeping"}}

\* lines 150-155 (and 186-191): one task per eligible symbol is submitted
SubmitPeriod ==
    /\ batch.pc = "submit"
    /\ batch.index <= Periods(batch)
    /\ \E eligible_symbols \in EligibleLists(batch.script) :
          batch' = [batch EXCEPT
                       !.tasks = [s \in SymbolSet(eligible_symbols) |-> NewTask],
                       !.queue = eligible_symbols,
                       !.pc = "collect"]
    /\ AppUntouched

\* a free worker thread takes the next task of the queue
StartTask ==
    /\ batch.queue # <<>>
    /\ Cardinality(Busy(batch)) < max_workers(batch.script)
    /\ batch' = [batch EXCEPT !.queue = Tail(@),
                              !.tasks[Head(batch.queue)].state = "running"]
    /\ AppUntouched

Attempting(s) ==
    /\ s \in DOMAIN batch.tasks
    /\ batch.tasks[s].state = "running"
    /\ batch.tasks[s].attempts < retries

\* download_data lines 67-68, download_data_with_retry line 82
AttemptSucceeds(s) ==
    /\ Attempting(s)
    /\ batch' = [batch EXCEPT !.tasks[s].attempts = @ + 1,
                              !.tasks[s].result = "time used",
                              !.tasks[s].state = "done"]
    /\ AppUntouched

\* download_data_with_retry lines 83-85: the attempt raised, time.sleep(2)
AttemptRaises(s) ==
    /\ Attempting(s)
    /\ batch' = [batch EXCEPT !.tasks[s].attempts = @ + 1,
                              !.tasks[s].slept = @ + Backoff,
                              !.tasks[s].state = "sleeping"]
    /\ AppUntouched

\* (mutant: AttemptTimesOutRetried lets the timeout reach the retry loop)
AttemptTimesOutRetried(s) ==
    /\ Attempting(s)
    /\ batch' = [batch EXCEPT !.tasks[s].attempts = @ + 1,
                              !.tasks[s].result = "timeout",
                              !.tasks[s].slept = @ + Backoff,
                              !.tasks[s].state = "sleeping"]
    /\ AppUntouched

\* download_data lines 69-70: the subprocess exceeded the timeout
AttemptTimesOut(s) ==
    /\ Attempting(s)
    /\ batch' = [batch EXCEPT !.tasks[s].attempts = @ + 1,
                              !.tasks[s].result = "timeout",
                              !.tasks[s].state = "done"]
    /\ AppUntouched

\* download_data lines 71-72: the subprocess exited with a non-zero status
AttemptExitsWithError(s) ==
    /\ Attempting(s)
    /\ batch' = [batch EXCEPT !.tasks[s].attempts = @ + 1,
                              !.tasks[s].result = "error",
                              !.tasks[s].state = "done"]
    /\ AppUntouched

\* download_data_with_retry lines 79 and 86: after the sleep the loop goes
\* on, or ends with "Failed after {retries} retries"
Wake(s) ==
    /\ s \in DOMAIN batch.tasks
    /\ batch.tasks[s].state = "sleeping"
    /\ batch' = IF batch.tasks[s].attempts < retries
                THEN [batch EXCEPT !.tasks[s].state = "running"]
                ELSE [batch EXCEPT !.tasks[s].state = "done",
                                   !.tasks[s].result = "failed"]
    /\ AppUntouched

\* lines 158-164: as_completed yields a finished future
Collect(s) ==
    /\ batch.pc = "collect"
    /\ s \in DOMAIN batch.tasks
    /\ batch.tasks[s].state = "done"
    /\ ~batch.tasks[s].collected
    /\ batch' = [batch EXCEPT !.tasks[s].collected = TRUE]
    /\ AppUntouched

\* (mutant: EndPeriodEarly leaves the period without waiting for its tasks)
EndPeriodEarly ==
    /\ batch.pc = "collect"
    /\ batch' = [batch EXCEPT !.index = @ + 1, !.pc = "submit"]
    /\ AppUntouched

\* lines 158 and 150: as_completed is exhausted when every future has been
\* yielded, and leaving the with block waits for the pool
EndPeriod ==
    /\ batch.pc = "collect"
    /\ \A s \in DOMAIN batch.tasks : batch.tasks[s].collected
    /\ batch' = [batch EXCEPT !.index = @ + 1, !.pc = "submit"]
    /\ AppUntouched

\* line 169: the first loop is over, the second begins
NextPass ==
    /\ batch.pc = "submit"
    /\ batch.index > Periods(batch)
    /\ batch.pass < Passes(batch.script)
    /\ batch' = [batch EXCEPT !.pass = @ + 1, !.index = 1]
    /\ AppUntouched

\* line 204
FinishBatch ==
    /\ batch.pc = "submit"
    /\ batch.index > Periods(batch)
    /\ batch.pass = Passes(batch.script)
    /\ batch' = [batch EXCEPT !.pc = "done"]
    /\ AppUntouched

NextBatch ==
    \/ GenerateIntervals
    \/ SubmitPeriod \/ StartTask
    \/ \E s \in Symbols : AttemptSucceeds(s)
    \/ \E s \in Symbols : AttemptTimesOut(s)
    \/ \E s \in Symbols : AttemptExitsWithError(s)
    \/ \E s \in Symbols : AttemptRaises(s)
    \/ \E s \in Symbols : Wake(s)
    \/ \E s \in Symbols : Collect(s)
    \/ EndPeriod \/ NextPass \/ FinishBatch

SpecBatch == InitBatch /\ [][NextBatch]_vars

-----------------------------------------------------------------------------
(* CLAIMS about the converter, checked under SpecConvert.                  *)
(* X's input file of ConvertDay ranges over RawFiles; Y's is ScenarioFile. *)

Fields == {"funding_rate", "mark_price", "index_price", "funding_timestamp"}

XFile == CsvName(DateStr(ConvertDay))
XRows == extractFS["X"][XFile].rows
XObs == 1..Len(XRows)
\* hour of the day of observation i (negative: the day before)
XHour(i) == (XRows[i].timestamp - EpochDay(ConvertDay) * 1440) \div 60
XInDay(i) == XHour(i) \in 0..23
XWritten == "X" \in DOMAIN outputFS /\ DOMAIN outputFS["X"] # {}
XSlots == outputFS["X"][CHOOSE n \in DOMAIN outputFS["X"] : TRUE]
ConvertDone == pc = "convert_done"

\* the output column of an input field, and the output value of an input value
OutField(f) ==
    CASE f = "funding_rate" -> "last_funding_rate"
      [] f = "funding_timestamp" -> "next_funding_time"
      [] OTHER -> f
OutValue(f, v) ==
    IF v = NaN THEN NaN
    ELSE IF f = "funding_timestamp" THEN v \div 1000 ELSE Round8(v)

\* observation a precedes observation b: earlier in time, or same time and
\* earlier in the input
Before(a, b) ==
    \/ XRows[a].timestamp < XRows[b].timestamp
    \/ XRows[a].timestamp = XRows[b].timestamp /\ a < b
\* the observations of hour h that carry a value of field f
Valued(f, h) == {i \in XObs : XHour(i) = h /\ XRows[i][f] # NaN}
\* the value of field f that hour h ends with (Valued(f, h) not empty)
HourValue(f, h) ==
    XRows[CHOOSE j \in Valued(f, h) : \A k \in Valued(f, h) \ {j} : Before(k, j)][f]

\* 24 slots, one per hour 0..23 of the day, none of the four fields unfilled
FullDay(slots) ==
    /\ Len(slots) = 24
    /\ \A i \in 1..24 :
          /\ slots[i].timestamp = (EpochDay(ConvertDay) * 24 + i - 1) * 3600
          /\ \A f \in Fields : slots[i][OutField(f)] # NaN

LastOfHour(j, h) ==
    XHour(j) = h /\ \A k \in XObs : (XHour(k) = h /\ k # j) => Before(k, j)

\* C3 as stated: an hour with two observations holds the numeric fields of the
\* later one.  Violated when the later observation lacks a field the earlier has.
C3_LaterObservationWins ==
    (ConvertDone /\ XWritten) =>
        \A h \in 0..23 : \A j \in XObs :
            (LastOfHour(j, h) /\ \E k \in XObs : k # j /\ XHour(k) = h) =>
                \A f \in Fields :
                    XSlots[h + 1][OutField(f)] = OutValue(f, XRows[j][f])

\* C3 amended: for any input order, in an hour with two or more observations each
\* field of the slot holds the value of the latest observation of that hour that
\* carries a value for that field (equal timestamps: the later in input order).
C3_LastWinsPerField ==
    (ConvertDone /\ XWritten) =>
        \A h \in 0..23 :
            (Cardinality({k \in XObs : XHour(k) = h}) >= 2) =>
                \A f \in Fields :
                    Valued(f, h) # {} =>
                        XSlots[h + 1][OutField(f)] = OutValue(f, HourValue(f, h))

\* C3 witness: two rows of one hour given out of time order with different rates;
\* the slot holds the rate of the row given first, which is the later in time
C3_Witness ==
    /\ ConvertDone /\ XWritten /\ Len(XRows) = 2
    /\ XHour(1) = XHour(2) /\ XInDay(1)
    /\ XRows[1].timestamp > XRows[2].timestamp
    /\ XRows[1].funding_rate # NaN /\ XRows[2].funding_rate # NaN
    /\ XRows[1].funding_rate # XRows[2].funding_rate
    /\ XSlots[XHour(1) + 1].last_funding_rate = Round8(XRows[1].funding_rate)

\* the hours before / after h in which some observation carries a value of f
EarlierHours(f, h) == {XHour(i) : i \in {k \in XObs : XHour(k) < h /\ XRows[k][f] # NaN}}
LaterHours(f, h) == {XHour(i) : i \in {k \in XObs : XHour(k) > h /\ XRows[k][f] # NaN}}
MaxOf(S) == CHOOSE x \in S : \A y \in S : y <= x
MinOf(S) == CHOOSE x \in S : \A y \in S : x <= y
SameValues(a, b) == \A f \in Fields : a[OutField(f)] = b[OutField(f)]

\* C4: for each field, an hour without observations takes the value of the most
\* recent earlier hour that has one, and the value of the nearest later hour only
\* when no earlier hour has one; observations only in hours 10..14 give hours
\* 14..23 the values of hour 14 and hours 0..9 the values of hour 10.
C4_FillDirection ==
    (ConvertDone /\ XWritten) =>
        /\ \A f \in Fields : \A h \in 0..23 :
              ({k \in XObs : XHour(k) = h} = {}) =>
                  /\ EarlierHours(f, h) # {} =>
                        XSlots[h + 1][OutField(f)] =
                            OutValue(f, HourValue(f, MaxOf(EarlierHours(f, h))))
                  /\ (EarlierHours(f, h) = {} /\ LaterHours(f, h) # {}) =>
                        XSlots[h + 1][OutField(f)] =
                            OutValue(f, HourValue(f, MinOf(LaterHours(f, h))))
        /\ (/\ \A k \in XObs : XHour(k) \in 10..14
            /\ \E k \in XObs : XHour(k) = 10
            /\ \E k \in XObs : XHour(k) = 14) =>
              /\ \A h \in 14..23 : SameValues(XSlots[h + 1], XSlots[15])
              /\ \A h \in 0..9 : SameValues(XSlots[h + 1], XSlots[11])

\* C4 witness: observations in hours 10 and 14 only, with different rates
C4_Witness ==
    /\ ConvertDone /\ XWritten /\ Len(XRows) = 2
    /\ XHour(1) = 10 /\ XHour(2) = 14
    /\ XRows[1].funding_rate # NaN /\ XRows[2].funding_rate # NaN
    /\ XRows[1].funding_rate # XRows[2].funding_rate
    /\ XSlots[1].last_funding_rate = Round8(XRows[1].funding_rate)
    /\ XSlots[13].last_funding_rate = Round8(XRows[1].funding_rate)
    /\ XSlots[24].last_funding_rate = Round8(XRows[2].funding_rate)

\* C5: a raw file with zero observations gets no output file, is entered in the
\* problem report, and the files after it in the batch are still converted.
C5_ZeroRowSkip ==
    (ConvertDone /\ XRows = <<>>) =>
        /\ ~XWritten
        /\ <<"X", XFile, "row_count">> \in problem_files
        /\ "Y" \in DOMAIN outputFS
        /\ DOMAIN outputFS["Y"] = {OutputName(ConvertDay)}
        /\ processed_files = 1

\* C5 witness: the run ended after X's empty file, Y's file written
C5_Witness ==
    /\ ConvertDone /\ XRows = <<>> /\ ~XWritten
    /\ processed_files = 1 /\ Len(outputFS["Y"][OutputName(ConvertDay)]) = 24

\* the input of the end-to-end scenario: rows at 09:13 (rate 0.0001) and 09:47
\* (rate 0.0002) only, in either order, complete in their other cells
ScenarioInput ==
    /\ ConvertDay = <<2025, 6, 1>>
    /\ Len(XRows) = 2
    /\ \E i \in XObs : \E j \in XObs :
          /\ XRows[i].timestamp = EpochDay(ConvertDay) * 1440 + 9 * 60 + 13
          /\ XRows[i].funding_rate = 100000
          /\ XRows[j].timestamp = EpochDay(ConvertDay) * 1440 + 9 * 60 + 47
          /\ XRows[j].funding_rate = 200000
    /\ \A i \in XObs : \A f \in Fields : XRows[i][f] # NaN

\* C6: for the scenario input the converter writes X/1748822400000.csv with 24
\* rows, one per hour 00..23, each with last_funding_rate 0.0002.
C6_EndToEnd ==
    (ConvertDone /\ ScenarioInput) =>
        /\ "X" \in DOMAIN outputFS
        /\ DOMAIN outputFS["X"] = {"1748822400000.csv"}
        /\ Len(outputFS["X"]["1748822400000.csv"]) = 24
        /\ \A i \in 1..24 :
              /\ outputFS["X"]["1748822400000.csv"][i].timestamp
                    = 1748736000 + (i - 1) * 3600
              /\ outputFS["X"]["1748822400000.csv"][i].last_funding_rate = 200000

\* C6 witness: the scenario, rows given in reverse order, converted
C6_Witness ==
    /\ ConvertDone /\ ScenarioInput
    /\ XRows[1].timestamp > XRows[2].timestamp
    /\ "1748822400000.csv" \in DOMAIN outputFS["X"]

-----------------------------------------------------------------------------
(* CLAIMS about the day pipeline, checked under Spec (C10 under FairSpec).  *)

\* the unit of the day has returned
UnitFinished == unit.verdict \in {"true", "false"}
UnitRan(stage) == \E i \in 1..Len(unit.stages) : unit.stages[i] = stage

\* C1 -- settlement timestamp agreement, as the claim states it: for every
\* day D the value Convert names the output file by, the value Archive looks
\* up and the value Purge looks up are the same, namely (D + 1 day) 00:00:00
\* UTC (2025-05-01 gives 2025-05-02T00:00:00Z = 1746144000000 ms), whatever
\* the time zone of the process.  Archive and Purge read (D + 1 day) 08:00 as
\* LOCAL time, so this fails wherever the zone is not UTC+8.
C1_SettlementAgreement ==
    /\ MillisStr(ConvertTimestamp(<<2025, 5, 1>>)) = "1746144000000"
    /\ \A D \in KnownDates :
          /\ ConvertTimestamp(D) = (EpochDay(D) + 1) * 86400
          /\ ArchiveTimestamp(D, tz) = ConvertTimestamp(D)
          /\ PurgeTimestamp(D, tz) = ConvertTimestamp(D)

\* no symbol directory of the output root holds the file the converter names
\* by the day's settlement timestamp
NoSettlementFile == \A s \in DOMAIN outputFS : OutputName(current_date) \notin DOMAIN outputFS[s]

\* C7 -- archive skip, as the claim states it: when no symbol directory under
\* the output root holds a file named by the day's settlement timestamp,
\* Archive counts 0 files and no funding_rate_{day}.tar.gz exists in the
\* final directory after the stage.  The code opens the tar for writing
\* before it looks for files, so an empty container is left behind.
C7_ArchiveSkip ==
    (pc = "purge" /\ NoSettlementFile) =>
        /\ compressed_files = 0
        /\ TarName(unit.date) \notin DOMAIN finalFS

\* every target of the day existed when Fetch was entered
AllTargetsExisted ==
    /\ UnitRan("fetch") /\ unit.fetch_ok
    /\ \A s \in SymbolSet(symbols) : HasFile(unit.download_before, s, GzName(unit.date))

\* C8 (as the claim states it) -- idempotent fetch: when every target file of
\* the day already exists, the downloader is not asked to fetch any of those
\* targets again, the files are unchanged and all symbols are reported
\* satisfied.
C8_DownloaderNotAsked ==
    (pc = "extract" /\ AllTargetsExisted) =>
        /\ fetch_requested \cap initial_files = {}
        /\ downloadFS = unit.download_before
        /\ final_downloaded = SymbolSet(symbols)

\* C8 (amended) -- when every target file of the day already exists, Fetch
\* still hands the whole symbol list to the downloader (it filters nothing
\* itself); with a downloader that skips targets that exist, the files are
\* unchanged and Fetch finds every symbol satisfied.
C8_IdempotentFetch ==
    (pc = "extract" /\ AllTargetsExisted) =>
        /\ initial_files = SymbolSet(symbols)
        /\ fetch_requested = SymbolSet(symbols)
        /\ downloadFS = unit.download_before
        /\ final_downloaded = SymbolSet(symbols)

C8_Witness ==
    /\ pc = "extract" /\ AllTargetsExisted
    /\ Len(symbols) = 2
    /\ final_downloaded = SymbolSet(symbols)

\* the three conditions of the unit verdict
VerdictConditions == unit.fetch_ok /\ unit.extracted >= 1 /\ unit.written # {}

\* C9 -- unit verdict, as the claim states it: a day is reported successful
\* only if Fetch did not raise, Extract produced at least one file for the
\* day and Convert produced at least one output file for the day; and when
\* the three hold the day is successful whatever Archive and Purge did.
\* convert_day_data counts a symbol whose output directory holds ANY csv, so
\* an output left from another day makes a day without output a success.
C9_UnitVerdict ==
    UnitFinished => (unit.verdict = "true" <=> VerdictConditions)

\* the days of [start_date, end_date] as the loop formats them, ascending
RangeLength == EpochDay(end_date) - EpochDay(start_date) + 1
RangeDays == [i \in 1..RangeLength |-> DateStr(AddDays(start_date, i - 1))]
LoggedDays == [i \in 1..Len(unit_log) |-> unit_log[i].date]
IsFailedEntry(e) == ~e.verdict
FailedUnits == SelectSeq(unit_log, IsFailedEntry)
Terminated == pc \in {"done", "aborted"}

RunVerdict ==
    /\ LoggedDays = RangeDays
    /\ successful_days + Len(failed_days) = RangeLength
    /\ failed_days = [i \in 1..Len(FailedUnits) |-> FailedUnits[i].date]
    /\ exit_code \in {0, 1}
    /\ exit_code = 0 <=> Len(failed_days) = 0

\* C10 -- run verdict: the main loop processes every calendar day of
\* [start_date, end_date] exactly once in ascending order and terminates; at
\* the end successful_days plus the number of failed days is the number of
\* days of the range, the summary's failed days are exactly the days whose
\* unit failed, and the exit code is 0 if and only if no day failed, else 1.
C10_RunVerdict ==
    /\ [](pc = "done" => RunVerdict)
    /\ [](pc \in {"fetch", "extract", "convert", "archive", "purge"} =>
             LoggedDays = SubSeq(RangeDays, 1, Len(unit_log))
             /\ unit.date = RangeDays[Len(unit_log) + 1])
    /\ (pc = "loop") ~> Terminated

C10_Witness ==
    /\ pc = "done"
    /\ RangeLength >= 2
    /\ successful_days >= 1
    /\ Len(failed_days) >= 1
    /\ exit_code = 1


(***************************************************************************)
(* CLAIMS about the availability lookup, checked under SpecLookup.         *)
(***************************************************************************)
Position(seq, x) == CHOOSE i \in DOMAIN seq : seq[i] = x
LookupDone == pc = "lookup_done"
LookupRow == availability_matrix.rows[DateStr(current_date)]
IsRowKey == DateStr(current_date) \in DOMAIN availability_matrix.rows

LookupResult ==
    IF ~IsRowKey THEN symbols = <<>>
    ELSE /\ {symbols[i] : i \in DOMAIN symbols} = {s \in Symbols : LookupRow[s] = 1}
         /\ \A i, j \in DOMAIN symbols : i # j => symbols[i] # symbols[j]
         /\ \A i, j \in DOMAIN symbols :
               i < j => Position(availability_matrix.columns, symbols[i])
                          < Position(availability_matrix.columns, symbols[j])

\* C11: get_available_symbols_for_date returns the empty list when the day
\* is not a row key of the matrix; otherwise it returns exactly the symbols
\* whose flag in that row equals 1, each once, in the order of the matrix
\* columns; and the lookup leaves the matrix as it was.
C11_SymbolsFor ==
    /\ [](LookupDone => LookupResult)
    /\ [][availability_matrix' = availability_matrix]_vars

\* a row whose two flags are 1 in a matrix whose columns are not in
\* alphabetical order, next to a row holding a 0 and an empty cell
C11_Witness ==
    /\ LookupDone /\ IsRowKey
    /\ availability_matrix.columns = <<"Y", "X">>
    /\ symbols = <<"Y", "X">>
    /\ \E ds \in DOMAIN availability_matrix.rows :
          availability_matrix.rows[ds] = [s \in Symbols |-> IF s = "X" THEN 0 ELSE NaN]


(***************************************************************************)
(* CLAIMS about the day pipeline, continued (checked under Spec).          *)
(***************************************************************************)
\* the availability lookup yields no symbol for the day
SkippedDay(date_str) ==
    get_available_symbols_for_date(availability_matrix, date_str) = <<>>
RanNoStage == unit.stages = <<>>

\* C12: a day whose availability lookup yields no symbols is skipped without
\* running any stage, is not recorded among the failed days, and does not
\* make the exit code non-zero (a run made of skipped days only exits 0).
C12_SkipDayIsNoError ==
    /\ (UnitFinished /\ SkippedDay(unit.date)) => RanNoStage
    /\ \A i \in DOMAIN failed_days : ~SkippedDay(failed_days[i])
    /\ (pc = "done" /\ \A i \in DOMAIN unit_log : SkippedDay(unit_log[i].date))
          => exit_code = 0


\* the vendor download call raised for the day of the unit
FetchRaised == UnitRan("fetch") /\ ~unit.fetch_ok
LastOf(seq) == seq[Len(seq)]
DaysLeft == DateLE(current_date, end_date)

\* C13: when the download call raises for day D, no stage after Fetch runs
\* for D, D is recorded as failed, the loop goes on with the day after D,
\* and the run ends only when every day of the range has been attempted.
C13_FetchFailure ==
    /\ [](FetchRaised =>
            /\ unit.stages = <<"fetch">>
            /\ unit.verdict = "false"
            /\ failed_days # <<>> /\ LastOf(failed_days) = unit.date
            /\ LastOf(unit_log) = [date |-> unit.date, verdict |-> FALSE]
            /\ current_date = NextDay(DateOf(unit.date))
            /\ pc \in {"loop", "done"}
            /\ (pc = "done" => unit.date = DateStr(end_date)))
    /\ [][(FetchRaised /\ DaysLeft)
            => (unit'.date = DateStr(current_date) /\ unit'.date # unit.date)]_vars
    /\ [](pc = "done" => LoggedDays = RangeDays)

\* the download raised on a day that is not the last one of the range
C13_Witness == FetchRaised /\ DaysLeft /\ pc = "loop"


\* the matrix file is missing, or start_date is after end_date
ConfigError == ~availability_matrix.exists \/ ~DateLE(start_date, end_date)
NoDayProcessed == unit = NoUnit /\ unit_log = <<>> /\ successful_days = 0

\* C14: with the availability matrix file missing, or start_date after
\* end_date, the run never enters the loop of days: its only step is the
\* exit with code 1, no day unit is started, no stage runs and no file of
\* the four directory trees changes.
C14_ConfigErrors ==
    /\ [](ConfigError => (pc \in {"main", "aborted"} /\ NoDayProcessed))
    /\ [](ConfigError /\ pc = "aborted" => exit_code = 1)
    /\ [][ConfigError => (/\ pc = "main" /\ pc' = "aborted" /\ exit_code' = 1
                          /\ UNCHANGED <<fs_vars, day_vars, conv_vars>>)]_vars

\* the range is valid and the matrix file is missing: exit with code 1
C14_Witness ==
    /\ pc = "aborted" /\ exit_code = 1
    /\ ~availability_matrix.exists /\ DateLE(start_date, end_date)
    /\ NoDayProcessed


\* Archive has just run: the output root is still what Archive walked
Archived == pc = "purge"
SettlementName == OutputName(current_date)
\* the symbol directories of the output root that hold the settlement file
SettlementDirs == {s \in DOMAIN outputFS : SettlementName \in DOMAIN outputFS[s]}
Container == finalFS[TarName(unit.date)]
Entries == {<<m[1], m[2]>> : m \in Container}

\* C15: after Archive for day D the container funding_rate_{D}.tar.gz holds
\* one entry {symbol}/{settlement timestamp of D}.csv for exactly the symbol
\* directories of the output root that contain a file of that name, with
\* the content of that file, no other entry, and the number of files Archive
\* reports equals the number of entries.
C15_ArchiveContent ==
    Archived =>
        /\ TarName(unit.date) \in DOMAIN finalFS
        /\ Entries = {<<s, SettlementName>> : s \in SettlementDirs}
        /\ \A m \in Container : m[3] = outputFS[m[1]][m[2]]
        /\ compressed_files = Cardinality(Entries)


\* Extract was the last stage to run for the unit: the download root is still
\* what Extract read
Extracted == unit.stages # <<>> /\ LastOf(unit.stages) = "extract"
\* the symbols of the day whose fetched file exists and decompresses
Extractable ==
    {s \in SymbolSet(symbols) :
        /\ HasFile(downloadFS, s, GzName(unit.date))
        /\ downloadFS[s][GzName(unit.date)].ok}
ExtractedSymbols == {extracted_files[i][1] : i \in DOMAIN extracted_files}

\* C16: Extract handles every symbol of the day: a missing fetched file or a
\* decompression failure is counted as an error and the symbols after it are
\* still extracted, so successes + errors = number of symbols and the
\* extracted symbols are exactly those with a readable fetched file.  The
\* unit goes on to Convert if and only if at least one symbol was extracted;
\* with none it ends with Fetch and Extract as its only stages.
C16_ExtractPolicy ==
    /\ Extracted =>
          /\ unit.extract_success + unit.extract_errors = Len(symbols)
          /\ unit.extract_success = Len(extracted_files)
          /\ ExtractedSymbols = Extractable
          /\ unit.extract_errors = Cardinality(SymbolSet(symbols) \ Extractable)
          /\ (pc = "convert") <=> (unit.extract_success >= 1)
          /\ (unit.extract_success = 0) <=> (UnitFinished /\ unit.verdict = "false")
    /\ UnitRan("convert") => unit.extract_success >= 1
    /\ (UnitRan("extract") /\ unit.extract_success = 0)
          => unit.stages = <<"fetch", "extract">>

\* the first symbol of the day fails to extract, the second one is extracted
\* and the unit goes on to Convert
C16_Witness ==
    /\ Extracted /\ pc = "convert"
    /\ symbols = <<"X", "Y">>
    /\ unit.extract_errors = 1
    /\ ExtractedSymbols = {"Y"}


\* Convert was the last stage to run for the unit
Converted == unit.stages # <<>> /\ LastOf(unit.stages) = "convert"
\* the symbols of the day for which this Convert wrote the file of the day
ConvertedToday ==
    {s \in SymbolSet(symbols) : <<s, OutputName(DateOf(unit.date))>> \in unit.written}

\* C17: a symbol of the day whose conversion fails is counted as failed and
\* the other symbols are still converted (successes + failures = number of
\* symbols, the successes being the symbols that obtained the output file of
\* the day from this conversion); the unit goes on to Archive if and only if
\* there is at least one such symbol, and with none neither Archive nor
\* Purge runs.
C17_ConvertPolicy ==
    /\ Converted =>
          /\ convert_result.success + convert_result.failed = Len(symbols)
          /\ convert_result.success = Cardinality(ConvertedToday)
          /\ (pc = "archive") <=> (ConvertedToday # {})
    /\ (UnitRan("convert") /\ ConvertedToday = {})
          => (~UnitRan("archive") /\ ~UnitRan("purge"))


\* Purge was the last stage to run for the unit: the three roots are still
\* what Purge left
Purged == unit.stages # <<>> /\ LastOf(unit.stages) = "purge"
\* the intermediates of the day, per root: the fetched file, the extracted
\* file, and the converted file named by the settlement timestamp
DayFile(root) ==
    CASE root = "download" -> GzName(unit.date)
      [] root = "extract" -> CsvName(unit.date)
      [] root = "output" -> OutputName(DateOf(unit.date))
RootNow(root) ==
    CASE root = "download" -> downloadFS
      [] root = "extract" -> extractFS
      [] root = "output" -> outputFS
\* <<root, symbol>> for every intermediate of the day that existed when Purge
\* started, and for those of them that are still there
PurgeTargets ==
    {t \in Roots \X SymbolSet(symbols) :
        HasFile(unit.before_purge[t[1]], t[2], DayFile(t[1]))}
PurgeLeft == {t \in PurgeTargets : HasFile(RootNow(t[1]), t[2], DayFile(t[1]))}

\* C18: once Archive has run, Purge runs whatever Archive returned and
\* returns; for every symbol of the day it attempts the deletion of the
\* fetched, the extracted and the converted file of the day, each attempt
\* counted as a success (the file is gone) or as a failure (the file is
\* still there); directories of the day's symbols left empty are removed;
\* successes + failures never exceed 3 times the number of symbols.
C18_PurgeTotal ==
    /\ (UnitFinished /\ UnitRan("archive")) => (Purged /\ unit.verdict = "true")
    /\ Purged =>
          /\ cleanup_result.success + cleanup_result.failed = Cardinality(PurgeTargets)
          /\ cleanup_result.failed = Cardinality(PurgeLeft)
          /\ cleanup_result.success + cleanup_result.failed <= 3 * Len(symbols)
          /\ \A root \in Roots : \A s \in SymbolSet(symbols) :
                s \in DOMAIN RootNow(root) => DOMAIN RootNow(root)[s] # {}


\* the archive bundle of the unit's day exists and holds at least one entry
BundleNonEmpty ==
    TarName(unit.date) \in DOMAIN finalFS /\ finalFS[TarName(unit.date)] # {}
\* every converted output file Purge deleted is an entry of the day's bundle
PurgedAreArchived ==
    \A m \in unit.purged :
        TarName(unit.date) \in DOMAIN finalFS /\ m \in finalFS[TarName(unit.date)]

\* C19: Purge deletes intermediates of the day only when the day's archive
\* bundle is non-empty, and in every reachable state every converted output
\* file that Purge has deleted is contained, with its content, in the
\* day's archive.
C19_NoLoss ==
    /\ (Purged /\ cleanup_result.success > 0) => BundleNonEmpty
    /\ PurgedAreArchived


StageOrder == <<"fetch", "extract", "convert", "archive", "purge">>
IsPrefix(a, b) == Len(a) <= Len(b) /\ \A i \in DOMAIN a : a[i] = b[i]
\* the unit is inside process_single_date, about to run the stage pc names
InStage == pc \in {StageOrder[i] : i \in DOMAIN StageOrder}

\* C20: the stages of one day unit run in the order Fetch, Extract, Convert,
\* Archive, Purge, each at most once; a stage starts only when the stage
\* before it has completed (the unit is about to run exactly the stage after
\* the ones it has run, and a step runs one stage, the one it was about to
\* run); no stage runs after an earlier stage aborted the unit (the download
\* raised, nothing was extracted, or Convert counted no success), and a
\* finished unit runs no stage.
C20_StageOrder ==
    /\ [](IsPrefix(unit.stages, StageOrder))
    /\ [](InStage => (/\ unit.verdict = "running"
                      /\ pc = StageOrder[Len(unit.stages) + 1]))
    /\ [](UnitRan("extract") => unit.fetch_ok)
    /\ [](UnitRan("convert") => unit.extract_success >= 1)
    /\ [](UnitRan("archive") => convert_result.success >= 1)
    /\ [][(unit'.stages # unit.stages /\ unit'.stages # <<>>)
            => (InStage /\ unit'.stages = Append(unit.stages, pc)
                /\ unit'.date = unit.date)]_vars
    /\ [][UnitFinished => (unit' = unit \/ unit'.stages = <<>>)]_vars

\* a unit that ran the five stages and returned, after an earlier unit of
\* the run was aborted
C20_Witness ==
    /\ UnitFinished /\ unit.stages = StageOrder
    /\ Len(unit_log) = 2 /\ ~unit_log[1].verdict


\* the days of the run before the day in progress
EarlierDays == {d \in RunDates : DateLE(d, current_date) /\ d # current_date}
\* <<root, symbol>> for every intermediate of day d on disk: the fetched
\* file, the extracted file, the converted file named by d's settlement
\* timestamp
IntermediatesOf(d) ==
    {<<"download", s>> : s \in {t \in DOMAIN downloadFS :
                                   GzName(DateStr(d)) \in DOMAIN downloadFS[t]}}
    \cup {<<"extract", s>> : s \in {t \in DOMAIN extractFS :
                                       CsvName(DateStr(d)) \in DOMAIN extractFS[t]}}
    \cup {<<"output", s>> : s \in {t \in DOMAIN outputFS :
                                      OutputName(d) \in DOMAIN outputFS[t]}}

\* C21: while the unit of a day is in progress no intermediate file (fetched
\* .csv.gz, extracted .csv, converted output .csv) of an earlier day is on
\* disk, whether the earlier day succeeded, failed or was aborted: at most
\* one day's intermediates exist at any moment.
C21_BoundedFootprint ==
    InStage => \A d \in EarlierDays : IntermediatesOf(d) = {}


(***************************************************************************)
(* CLAIMS about interruption, checked under SpecInterrupt.                 *)
(***************************************************************************)
UnitInProgress == unit.verdict = "running"

\* C22: an interrupt arriving while a day unit is in progress takes effect
\* only between units: the run never stops with a unit in progress, the
\* unit first completes its stages or its abort path and returns.
C22_CancellationBoundary == Terminated => ~UnitInProgress

-----------------------------------------------------------------------------
(* CLAIMS about running a unit again, checked under SpecRerun.             *)

\* the stages of one unit composed without a fault, from empty directories
CleanRun(vendor, date, symbol_list, offset) ==
    LET dl == Download(NoFS, [s \in SymbolSet(symbol_list) |-> vendor[s]], date)
        ex == extract_day_data(DateStr(date), dl, NoFS, symbol_list)
        cv == ConvertAll(ex.fs, NoFS)
        converted == ConvertedSymbols(cv.output, symbol_list)
        members == TarMembers(cv.output, ArchiveName(date, offset))
    IN IF ex.files = <<>>
       THEN <<EmptyDir, dl, ex.fs, NoFS>>
       ELSE IF converted = {}
            THEN <<EmptyDir, dl, ex.fs, cv.output>>
            ELSE <<(TarName(DateStr(date)) :> members) @@ EmptyDir,
                   PurgeRoot(dl, symbol_list, GzName(DateStr(date)), FALSE),
                   PurgeRoot(ex.fs, symbol_list, CsvName(DateStr(date)), FALSE),
                   PurgeRoot(cv.output, symbol_list, PurgeName(date, offset), FALSE)>>

DiskNow == <<finalFS, downloadFS, extractFS, outputFS>>

RerunSymbols ==
    get_available_symbols_for_date(availability_matrix, DateStr(FirstDay))

FirstRunFailed ==
    /\ rerun.attempt = 2
    /\ \/ rerun.first.verdict \in {"false", "running", "none"}
       \/ rerun.first.exit_code = 1

\* C23: a unit run again after its first run failed or was interrupted, over
\* whatever files that run left, ends with the archive and the remaining
\* files of one uninterrupted run; and one uninterrupted run without a fault
\* ends with exactly those
C23_SafeRerun ==
    /\ (rerun.attempt = 2 /\ pc = "done")
          => DiskNow = CleanRun(rerun.vendor, FirstDay, RerunSymbols, tz)
    /\ (rerun.attempt = 1 /\ pc = "done" /\ io_faults = 0 /\ unit.fetch_ok)
          => DiskNow = CleanRun(rerun.vendor, FirstDay, RerunSymbols, tz)

\* the first run was interrupted after Extract had written files, and the
\* second run archived the day
C23_Witness ==
    /\ FirstRunFailed
    /\ rerun.first.verdict = "running"
    /\ rerun.first.stages # <<>>
    /\ LastOf(rerun.first.stages) \in {"extract", "convert", "archive"}
    /\ pc = "done"
    /\ TarName(DateStr(FirstDay)) \in DOMAIN finalFS
    /\ finalFS[TarName(DateStr(FirstDay))] # {}

-----------------------------------------------------------------------------
(* CLAIMS about the scope of Convert, checked under Spec.                  *)

ConvertRan == pc = "convert" /\ unit'.stages = Append(unit.stages, "convert")

\* the output files the converter saves when Convert runs in this state
ConvertWrites == ConvertAll(extractFS, outputFS).written

\* C27: Convert of day D for the symbols S of that day saves output files
\* only for symbols of S and only under the name of day D, whatever other
\* extracted files lie under the extract root
C27_ConvertScope ==
    [][ConvertRan => \A w \in ConvertWrites :
                        /\ w[1] \in SymbolSet(symbols)
                        /\ w[2] = OutputName(current_date)]_vars

-----------------------------------------------------------------------------
(* CLAIMS about generate_monthly_intervals, checked under SpecIntervals.   *)

IntervalsDone == batch.pc = "submit"

SameMonth(a, b) == a[1] = b[1] /\ a[2] = b[2]

\* the intervals cover the range in ascending order without gap or overlap
Partitions(iv, first, last) ==
    /\ iv # <<>>
    /\ iv[1][1] = first
    /\ iv[Len(iv)][2] = last
    /\ \A i \in 1..Len(iv) : DateLE(iv[i][1], iv[i][2])
    /\ \A i \in 1..(Len(iv) - 1) : iv[i + 1][1] = NextDay(iv[i][2])

\* C28: for start_date <= end_date the intervals returned partition the
\* range (first starts at start_date, last ends at end_date, start <= end in
\* each, each next one starts the day after the previous ends) and each lies
\* within one calendar month; for start_date > end_date none is returned
C28_MonthlyPartition ==
    IntervalsDone =>
        IF DateLE(batch.start_date, batch.end_date)
        THEN /\ Partitions(batch.monthly_intervals, batch.start_date, batch.end_date)
             /\ \A i \in 1..Len(batch.monthly_intervals) :
                    SameMonth(batch.monthly_intervals[i][1],
                              batch.monthly_intervals[i][2])
        ELSE batch.monthly_intervals = <<>>

-----------------------------------------------------------------------------
(* CLAIMS about the batch downloader, checked under SpecBatch.             *)

Task(s) == batch.tasks[s]
Submitted == IF batch.pc \in {"collect", "submit", "done"} THEN DOMAIN batch.tasks ELSE {}

\* C24: a task whose attempt ended because the downloader subprocess exited
\* with an error is attempted again, 2 seconds later, until an attempt
\* succeeds or `retries` attempts were made; no task is attempted more than
\* `retries` times
C24_RetryOnError ==
    \A s \in Submitted :
        /\ Task(s).attempts <= retries
        /\ (Task(s).state = "done" /\ Task(s).result = "error")
              => /\ Task(s).attempts = retries
                 /\ Task(s).slept = Backoff * (retries - 1)

TimedOut(s) == s \in Submitted /\ Task(s).result = "timeout"

\* C25: a task whose subprocess exceeded the fixed timeout is finished with
\* the timed-out result, and while its period lasts it is never attempted
\* again, whatever number of attempts it has left
C25_TimeoutIsFinal ==
    /\ [](\A s \in Symbols :
             TimedOut(s) => /\ Task(s).state = "done"
                            /\ Task(s).timeout = timeout)
    /\ [][\A s \in Symbols :
             (TimedOut(s) /\ batch.pc = "collect")
                => /\ s \in DOMAIN batch'.tasks
                   /\ batch'.tasks[s].attempts = Task(s).attempts
                   /\ batch'.tasks[s].result = "timeout"
                   /\ batch'.tasks[s].state = "done"]_vars

\* a timed-out first attempt, collected by the main thread, retries left
C25_Witness ==
    \E s \in Symbols :
        /\ TimedOut(s)
        /\ Task(s).attempts = 1
        /\ Task(s).attempts < retries
        /\ Task(s).collected
        /\ batch.pc = "submit"

LeavesPeriod == batch.pc = "collect" /\ batch'.pc # "collect"

\* C26: a period submits one task per eligible symbol, never more than
\* max_workers of them are running at once, and the loop leaves the period
\* only when every task submitted for it has finished, in whatever order the
\* tasks ran and ended
C26_Barrier ==
    /\ [](Cardinality(Busy(batch)) <= max_workers(batch.script))
    /\ [][(batch.pc = "submit" /\ batch'.pc = "collect")
             => /\ DOMAIN batch'.tasks = SymbolSet(batch'.queue)
                /\ Len(batch'.queue) = Cardinality(DOMAIN batch'.tasks)
                /\ \A s \in DOMAIN batch'.tasks : batch'.tasks[s] = NewTask]_vars
    /\ [][LeavesPeriod
             => /\ batch.queue = <<>>
                /\ \A s \in DOMAIN batch.tasks : Task(s).state = "done"
                /\ batch'.index = batch.index + 1]_vars

\* two tasks run at once and the one submitted second has ended first
C26_Witness ==
    /\ batch.pc = "collect"
    /\ DOMAIN batch.tasks = Symbols
    /\ Task(SymbolOrder[2]).state = "done"
    /\ Task(SymbolOrder[2]).collected
    /\ Task(SymbolOrder[1]).state = "running"
    /\ batch.index = 2

=============================================================================
